---------------------------- MODULE Spec2Model ----------------------------
(***************************************************************************)
(* The workbench orchestration core of bolt.diy as a state machine:        *)
(*   - WorkbenchStore (artifact registry, global execution queue,          *)
(*     streaming sampler, _runAction, editor/unsaved bookkeeping),         *)
(*   - getWebContainer (the memoized boot of the runtime handle).          *)
(* Every asynchronous function is cut at its awaits: one action runs the   *)
(* code from one suspension point to the next, as the event loop does.     *)
(***************************************************************************)
EXTENDS Integers, Sequences, FiniteSets, TLC

(* ------------------------------ bounds -------------------------------- *)
\* operations enqueued by addAction / runAction in the queue behaviours
MaxQueued == 3
\* operations enqueued or started in the streaming behaviours
MaxOps == 4
\* clock ticks of half a sampling interval each
MaxTicks == 2
\* calls of getWebContainer
MaxCalls == 3
\* saveFile calls of the user in flight
MaxUserSaves == 1
\* hot reloads of the webcontainer module
MaxReloads == 1
\* saveAllFiles calls
MaxSaveAlls == 1
\* port events reported by the runtime
MaxPortEvents == 3
\* messages other tabs post on the preview-updates channel
MaxMsgs == 2
\* messages other tabs post on the storage-sync channel
MaxStorageMsgs == 2
\* steps of the preview registry's clock
MaxPreviewTicks == 2
\* restoreSnapshot calls
MaxRestores == 2
\* runAction calls, and file or folder changes, with the user changing files
MaxMutOps == 2
MaxMutations == 1
\* takeSnapshot calls
MaxTakes == 2
MaxStores == 2
MaxRequests == 2

(* ------------------------- program constants --------------------------- *)
\* createSampler(..., 100)
SampleInterval == 100
TickMs == SampleInterval \div 2
\* #REFRESH_DELAY = 300
RefreshDelay == 300
PreviewTickMs == RefreshDelay \div 2
MaxPreviewTime == SampleInterval + MaxPreviewTicks * PreviewTickMs
MaxTime == SampleInterval + MaxTicks * TickMs

None == "<none>"
WorkDir == "/home/project"
MessageIds == {"m1", "m2"}
ActionIds == {"a1", "a2"}
\* "" is the falsy content of `data.action.content`
Contents == {"", "x"}

\* the action payload the parser attaches to an action id
ActionType(a) == IF a = "a1" THEN "file" ELSE "shell"
ActionFilePath(a) == "a.txt"
\* path.join(wc.workdir, data.action.filePath)
FullPath(fp) == WorkDir \o "/" \o fp
\* the paths of the project: the file actions' path and one more file
Paths == {FullPath(ActionFilePath(a)) : a \in {b \in ActionIds : ActionType(b) = "file"}}
           \cup {FullPath("b.txt")}

VARIABLES
  artifacts,       \* messageId -> ArtifactState, the `artifacts` map store
  artifactIdList,  \* ordered list of registered message ids
  runnersMade,     \* number of ActionRunner objects constructed
  runner,          \* per message id: the runner's registered / executed action ids
  runnerLog,       \* per message id: the action ids handed to runner.addAction, in order
  pendingRuns,     \* runner executions in flight, oldest first (op indices)
  pendingSaves,    \* FilesStore.saveFile calls in flight: path, value, awaiting op
                   \* (0: the user, -r: the r-th saveAllFiles call)
  saveAllRuns,     \* saveAllFiles calls: the paths still to save, and how the call stands
  ops,             \* every operation enqueued or started, in call order
  started,         \* indices of queue callbacks, in the order they started
  wcWaiters,       \* ops suspended at `await getWebContainer()`, in await order
  files,           \* File Table: path -> content
  documents,       \* editor documents: path -> value
  unsavedFiles,    \* the unsavedFiles atom
  selectedFile,    \* editor's selected file
  currentView,     \* the currentView atom
  now,             \* Date.now()
  lastTime,        \* the sampler's time of its last execution
  lastStreamStart, \* {time the latest streaming _runAction started}, {} before the first
  step,            \* the handler that ran last, with its inputs
  ssr,             \* import.meta.env.SSR
  hot,             \* import.meta.hot is defined
  hotData,         \* hot.data: webcontainer promise, previewListenerAttached
  promises,        \* boot promises made by getWebContainer, by creation order
  returned,        \* what each getWebContainer call returned, in call order
  webcontainerContext, \* loaded / booting / lastError
  bootCount,       \* invocations of WebContainer.boot
  listeners,       \* preview-message listeners registered on the runtime
  generation,      \* evaluations of the webcontainer module after the first
  \* PreviewsStore
  heap,            \* the PreviewInfo objects made so far: port, ready, baseUrl
  availablePreviews, \* #availablePreviews: port -> PreviewInfo object (0: none)
  previews,        \* the `previews` atom: a list of PreviewInfo objects
  lastUpdate,      \* #lastUpdate: preview id -> timestamp (0: none)
  refreshTimeouts, \* #refreshTimeouts: preview id -> timeout handle (0: none)
  timers,          \* timeouts pending: handle, preview id, time due
  rafs,            \* animation-frame callbacks pending: the preview and the list they hold
  inbox,           \* messages of other tabs on the preview-updates channel, not yet received
  posted,          \* messages this tab posted on the preview-updates channel
  portEvents,      \* number of port events so far
  received,        \* number of preview-updates messages received so far
  tabId,           \* window._tabId
  storageInbox,    \* messages of other tabs on the storage-sync channel, not yet received
  storageApplied,  \* the sources of the storage-sync messages applied, in order
  storageSeen,     \* number of storage-sync messages received so far
  \* useChatHistory
  storedMessages,  \* the transcript in the database
  storedSnapshot,  \* the snapshot in the database (at most one)
  rewindTo,        \* the rewindTo search parameter
  archivedMessages, \* the archivedMessages state
  initialMessages, \* the initialMessages state
  loadPc,          \* where the load effect stands
  restoreRuns,     \* restoreSnapshot calls: their files, position and caller
  runtimeFs,       \* the runtime's filesystem: path -> entry
  \* pushToGitHub, file mutations, takeSnapshot
  push,            \* the pushToGitHub call: where it stands, attempt, calls made, result
  mutations,       \* createFile / deleteFile / deleteFolder calls awaiting the FilesStore
  takes,           \* takeSnapshot calls: where each stands and what it surfaced
  \* alerts
  alerts,          \* the alert atoms and the #reloadedMessages set of every store constructed
  \* api.export-api-keys
  served           \* the requests the loader has served, each with its response

wbVars == <<artifacts, artifactIdList, runnersMade, runner, runnerLog, pendingRuns,
            pendingSaves, saveAllRuns, ops,
            started, wcWaiters, files, documents, unsavedFiles, selectedFile,
            currentView, now, lastTime, lastStreamStart>>
bootVars == <<ssr, hot, hotData, promises, returned, webcontainerContext, bootCount,
              listeners, generation>>
\* the state of the preview registry and of the chat history
pvVars == <<heap, availablePreviews, previews, lastUpdate, refreshTimeouts, timers, rafs,
            inbox, posted, portEvents, received, tabId, storageInbox, storageApplied,
            storageSeen>>
histVars == <<storedMessages, storedSnapshot, rewindTo, archivedMessages, initialMessages,
              loadPc, restoreRuns, runtimeFs>>
sideVars == <<push, mutations, takes, alerts, served>>
extVars == <<pvVars, histVars, sideVars>>
\* the workbench without its clock
storeVars == <<artifacts, artifactIdList, runnersMade, runner, runnerLog, pendingRuns,
               pendingSaves, saveAllRuns, ops, started, wcWaiters, files, documents,
               unsavedFiles, selectedFile, currentView, lastTime, lastStreamStart>>
outsidePreview == <<storeVars, bootVars, histVars, sideVars>>
vars == <<wbVars, bootVars, step, extVars>>

regVars == <<artifacts, artifactIdList, runnersMade>>
queueVars == <<ops, started, wcWaiters>>
ioVars == <<pendingRuns, pendingSaves>>
viewVars == <<selectedFile, currentView>>
clockVars == <<now, lastTime, lastStreamStart>>

(* ------------------------------ helpers -------------------------------- *)
\* "noop": _runAction returned early; "skipped": the callback was never called
Terminal == {"done", "noop", "failed", "skipped"}
InFlight == {"wc", "runner1", "save", "runner2", "runner"}

\* an operation handed to addToExecutionQueue (addAction, non-streaming runAction)
ViaQueue(o) == o.kind = "add" \/ ~o.streaming
QueueOps == {i \in 1..Len(ops) : ViaQueue(ops[i])}

\* #getArtifact(id) finds an artifact
HasArtifact_any(m) == TRUE
HasArtifact(m) == m \in DOMAIN artifacts

\* EditorStore.currentDocument: the document of the selected file
CurrentDocument == IF selectedFile # None /\ documents[selectedFile] # None
                   THEN selectedFile ELSE None

\* EditorStore.updateFile(filePath, newContent): changes an existing document only
UpdateFile(docs, p, c) == IF docs[p] = None THEN docs ELSE [docs EXCEPT ![p] = c]

\* the record an action leaves in `step`
Label(op, m, flag) == [op |-> op, m |-> m, flag |-> flag]

\* the two payloads addArtifact is called with ({ messageId, title, id, type })
ArtifactData == {[id |-> "i1", title |-> "t1", type |-> "bundled"],
                 [id |-> "i2", title |-> "t2", type |-> None]}

\* the message whose actions the parser is emitting
ActionMessageIds == {"m1"}
FileActionIds == {a \in ActionIds : ActionType(a) = "file"}

\* what runAction is called with: shell actions carry no file content
RunInputs == {<<m, a, c>> \in ActionMessageIds \X ActionIds \X Contents :
                ActionType(a) = "file" \/ c = ""}

Without(seq, x) == SelectSeq(seq, LAMBDA y : y # x)
RemoveAt(seq, k) == [j \in 1..(Len(seq) - 1) |-> IF j < k THEN seq[j] ELSE seq[j + 1]]

(* ------------------------- artifact registry --------------------------- *)
\* addArtifact's early return: an artifact for the message id exists
AlreadyRegistered_never(m) == FALSE
AlreadyRegistered(m) == HasArtifact(m)

\* addArtifact({ messageId, title, id, type })
AddArtifact(m, d) ==
  /\ step' = Label("addArtifact", m, AlreadyRegistered(m))
  /\ IF AlreadyRegistered(m)
     THEN UNCHANGED regVars
     ELSE /\ artifactIdList' = IF \E k \in 1..Len(artifactIdList) : artifactIdList[k] = m
                               THEN artifactIdList ELSE Append(artifactIdList, m)
          /\ runnersMade' = runnersMade + 1
          /\ artifacts' = [x \in DOMAIN artifacts \cup {m} |->
                            IF x = m THEN [id |-> d.id, title |-> d.title, closed |-> FALSE,
                                           type |-> d.type, runner |-> runnersMade + 1]
                            ELSE artifacts[x]]
  /\ UNCHANGED <<runner, runnerLog, ioVars, queueVars, files, documents, unsavedFiles,
                 viewVars, clockVars>>
  /\ UNCHANGED <<saveAllRuns, bootVars, extVars>>

\* the `state` argument of updateArtifact, a Partial<ArtifactUpdateState>:
\* `has` names the keys it carries
PartialStates == [has : SUBSET {"title", "closed"}, title : {"t3"}, closed : BOOLEAN]

\* { ...artifact, ...state }
Spread_all(artifact, state) ==
  [artifact EXCEPT !.title = state.title, !.closed = state.closed]
Spread(artifact, state) ==
  [artifact EXCEPT !.title = IF "title" \in state.has THEN state.title ELSE @,
                   !.closed = IF "closed" \in state.has THEN state.closed ELSE @]

\* updateArtifact({ messageId }, state)
UpdateArtifact(m, state) ==
  /\ step' = [op |-> "updateArtifact", m |-> m, flag |-> HasArtifact(m), state |-> state]
  /\ artifacts' = IF HasArtifact(m)
                  THEN [artifacts EXCEPT ![m] = Spread(artifacts[m], state)]
                  ELSE artifacts
  /\ UNCHANGED <<artifactIdList, runnersMade, runner, runnerLog, ioVars, queueVars, files,
                 documents, unsavedFiles, viewVars, clockVars>>
  /\ UNCHANGED <<saveAllRuns, bootVars, extVars>>

\* get firstArtifact(): the artifact of artifactIdList[0], if there is one
HasFirstArtifact == artifactIdList # <<>> /\ HasArtifact(artifactIdList[1])

(* -------------------------------- alerts -------------------------------- *)
\* the three alert atoms and the alerts a runner raises
AlertKinds == {"actionAlert", "supabaseAlert", "deployAlert"}
AlertValues == {"e1", "e2"}

\* a WorkbenchStore as constructed: `#reloadedMessages = new Set()`; runnersBefore
\* is the number of runners made by the stores before it, whose callbacks hold
\* those stores as `this`
NewStore(runnersBefore) == [reloadedMessages |-> {}, runnersBefore |-> runnersBefore]

\* one store, the alert atoms undefined
InitAlerts == [stores |-> <<NewStore(0)>>, atoms |-> [k \in AlertKinds |-> None]]

\* the store the page uses: the one constructed last
CurrentStore == Len(alerts.stores)

\* the store whose addArtifact made the runner of message m: `this` in the
\* runner's alert callbacks
StoreOf(m) ==
  LET made == {k \in 1..Len(alerts.stores) :
                 alerts.stores[k].runnersBefore < artifacts[m].runner}
  IN CHOOSE k \in made : \A j \in made : j <= k

\* setReloadedMessages(messages)
SetReloadedMessages(messages) ==
  /\ alerts' = [alerts EXCEPT !.stores[CurrentStore].reloadedMessages = messages]
  /\ step' = Label("setReloadedMessages", None, FALSE)
  /\ UNCHANGED <<wbVars, bootVars, pvVars, histVars, push, mutations, takes, served>>

\* `this.#reloadedMessages.has(messageId)` in an alert callback of m's runner
Suppressed_never(m) == FALSE
Suppressed(m) == m \in alerts.stores[StoreOf(m)].reloadedMessages

\* the runner of message m calls one of its three alert callbacks:
\* `if (this.#reloadedMessages.has(messageId)) return; this.xAlert.set(alert)`
RaiseAlert(m, kind, alert) ==
  /\ HasArtifact(m)
  /\ alerts' = IF Suppressed(m) THEN alerts
               ELSE [alerts EXCEPT !.atoms[kind] = alert]
  /\ step' = Label("raiseAlert", m, Suppressed(m))
  /\ UNCHANGED <<wbVars, bootVars, pvVars, histVars, push, mutations, takes, served>>

\* hot reload of the workbench module while no project is open and nothing is
\* in flight: a new WorkbenchStore is constructed; `artifacts` and the alert
\* atoms come from import.meta.hot.data (lines 46-56), artifactIdList starts as
\* [] (line 58) and #reloadedMessages as an empty set (line 44)
ReloadStore ==
  /\ hot
  /\ ops = <<>> /\ pendingRuns = <<>> /\ pendingSaves = <<>> /\ saveAllRuns = <<>>
  /\ \A p \in Paths : files[p] = None /\ documents[p] = None
  /\ artifactIdList # <<>>
  /\ artifactIdList' = <<>>
  /\ alerts' = [alerts EXCEPT !.stores = Append(@, NewStore(runnersMade))]
  /\ step' = Label("reloadStore", None, FALSE)
  /\ UNCHANGED <<artifacts, runnersMade, runner, runnerLog, ioVars, queueVars, files,
                 documents, unsavedFiles, viewVars, clockVars>>
  /\ UNCHANGED <<saveAllRuns, bootVars, pvVars, histVars, push, mutations, takes, served>>

(* ----------------------- global execution queue ------------------------ *)
\* addToExecutionQueue: `queue = queue.then(() => callback())`. The callback of
\* entry i runs once the promise of the entry enqueued before it has settled ...
ChainSettled_noWait(i) == TRUE
ChainSettled(i) == \A j \in QueueOps : j < i => ops[j].pc \in Terminal

\* ... and only if that promise fulfilled: `.then` is given no rejection handler,
\* so a rejected chain passes the rejection on without calling the callback
ChainRejected(i) == \E j \in QueueOps : j < i /\ ops[j].pc \in {"failed", "skipped"}

\* addToExecutionQueue(callback) as called by addAction and runAction
Enqueue(kind, m, a, c) ==
  /\ ops' = Append(ops, [kind |-> kind, m |-> m, a |-> a, content |-> c,
                         streaming |-> FALSE, pc |-> "queued",
                         runnerCalls |-> 0, runnerRuns |-> 0])
  /\ UNCHANGED <<regVars, runner, runnerLog, ioVars, started, wcWaiters, files, documents,
                 unsavedFiles, viewVars, clockVars>>

\* addAction(data)
AddAction(m, a) ==
  /\ Enqueue("add", m, a, "")
  /\ step' = Label("addAction", None, FALSE)
  /\ UNCHANGED <<saveAllRuns, bootVars, extVars>>

\* the rejected chain reaches entry i: its callback is never called
QueueSkip(i) ==
  /\ i \in QueueOps /\ ops[i].pc = "queued"
  /\ ChainSettled(i) /\ ChainRejected(i)
  /\ ops' = [ops EXCEPT ![i].pc = "skipped"]
  /\ step' = Label("queueSkip", None, FALSE)
  /\ UNCHANGED <<regVars, runner, runnerLog, ioVars, started, wcWaiters, files, documents,
                 unsavedFiles, viewVars, clockVars>>
  /\ UNCHANGED <<saveAllRuns, bootVars, extVars>>

\* the chain calls `() => this._addAction(data)`
StartAddAction(i) ==
  LET o == ops[i] IN
  /\ i \in QueueOps /\ o.pc = "queued" /\ o.kind = "add"
  /\ ChainSettled(i) /\ ~ChainRejected(i)
  /\ started' = Append(started, i)
  /\ step' = Label("_addAction", None, FALSE)
  /\ IF ~HasArtifact(o.m)
     THEN \* unreachable('Artifact not found')
          /\ ops' = [ops EXCEPT ![i].pc = "failed"]
          /\ UNCHANGED <<runner, runnerLog>>
     ELSE \* artifact.runner.addAction(data)
          /\ ops' = [ops EXCEPT ![i].pc = "done"]
          /\ runner' = [runner EXCEPT ![o.m].actions = @ \cup {o.a}]
          /\ runnerLog' = [runnerLog EXCEPT ![o.m] = Append(@, o.a)]
  /\ UNCHANGED <<regVars, ioVars, wcWaiters, files, documents, unsavedFiles, viewVars,
                 clockVars>>
  /\ UNCHANGED <<saveAllRuns, bootVars, extVars>>

(* ------------------------------ _runAction ----------------------------- *)
\* `if (!action || action.executed) return;`
NoOpRun_ignoreExecuted(m, a) == a \notin runner[m].actions
NoOpRun(m, a) == a \notin runner[m].actions \/ a \in runner[m].executed

\* where _runAction stands after its synchronous part
RunSyncPc(m, a) ==
  IF ~HasArtifact(m) THEN "failed"             \* unreachable('Artifact not found')
  ELSE IF NoOpRun(m, a) THEN "noop"
  ELSE IF ActionType(a) = "file" THEN "wc"     \* await getWebContainer()
  ELSE "runner"                                \* await artifact.runner.runAction(data)

\* line 460: the calls of runner.runAction made in the synchronous part
SyncCalls(m, a) == IF RunSyncPc(m, a) = "runner" THEN 1 ELSE 0

\* _runAction goes on from context s: the pc it reaches, and the calls of
\* runner.runAction it made and the executions the runner started for it
GoOn(i, s) ==
  [ops EXCEPT ![i].pc = s.pc, ![i].runnerCalls = @ + s.calls, ![i].runnerRuns = @ + s.runs]

\* the synchronous part of _runAction(data, isStreaming) for the operation at index i
RunSync(i, m, a) ==
  LET pc == RunSyncPc(m, a) IN
  /\ wcWaiters' = IF pc = "wc" THEN Append(wcWaiters, i) ELSE wcWaiters
  /\ IF pc = "runner"
     THEN /\ runner' = [runner EXCEPT ![m].executed = @ \cup {a}]
          /\ pendingRuns' = Append(pendingRuns, i)
     ELSE UNCHANGED <<runner, pendingRuns>>
  /\ UNCHANGED <<regVars, runnerLog, pendingSaves, files, documents, unsavedFiles,
                 viewVars, now>>

\* the chain calls `() => this._runAction(data, isStreaming)`
StartRunAction(i) ==
  LET o == ops[i] IN
  /\ i \in QueueOps /\ o.pc = "queued" /\ o.kind = "run"
  /\ ChainSettled(i) /\ ~ChainRejected(i)
  /\ started' = Append(started, i)
  /\ ops' = [ops EXCEPT ![i].pc = RunSyncPc(o.m, o.a),
                         ![i].runnerCalls = SyncCalls(o.m, o.a),
                         ![i].runnerRuns = SyncCalls(o.m, o.a)]
  /\ RunSync(i, o.m, o.a)
  /\ step' = Label("_runAction", None, FALSE)
  /\ UNCHANGED <<lastTime, lastStreamStart>>
  /\ UNCHANGED <<saveAllRuns, bootVars, extVars>>

\* what a continuation of _runAction works on: the documents, the runner's state,
\* the runner executions and saves in flight, and where the function stands
RunContext == [docs |-> documents, rn |-> runner, pend |-> pendingRuns,
             saves |-> pendingSaves, pc |-> None, calls |-> 0, runs |-> 0]

\* lines 455-458: `await artifact.runner.runAction(data); resetAllFileModifications()`
FinalRun(s, i) ==
  LET o == ops[i] IN
  IF o.a \in s.rn[o.m].executed
  THEN [s EXCEPT !.pc = "done", !.calls = @ + 1]  \* the runner returns at once
  ELSE [s EXCEPT !.rn[o.m].executed = @ \cup {o.a}, !.pend = Append(@, i), !.pc = "runner2",
                 !.calls = @ + 1, !.runs = @ + 1]

\* lines 450-458: updateFile, then for the non-streaming run saveFile (which
\* returns at once without a document) and the runner
AfterDoc(s, i) ==
  LET o == ops[i]
      p == FullPath(ActionFilePath(o.a))
      s1 == [s EXCEPT !.docs = UpdateFile(s.docs, p, o.content)]
  IN IF o.streaming THEN [s1 EXCEPT !.pc = "done"]
     ELSE IF o.content # "" /\ s1.docs[p] # None
          THEN \* await this.#filesStore.saveFile(filePath, document.value)
               [s1 EXCEPT !.saves = Append(@, [path |-> p, value |-> s1.docs[p], op |-> i]),
                          !.pc = "save"]
          ELSE FinalRun(s1, i)

\* lines 445-448: `if (!doc) await artifact.runner.runAction(data, isStreaming)`
AtDoc_asStreaming(s, i) ==
  LET o == ops[i]
      p == FullPath(ActionFilePath(o.a))
  IN IF s.docs[p] # None THEN AfterDoc(s, i)
     ELSE IF o.a \in s.rn[o.m].executed
     THEN AfterDoc([s EXCEPT !.calls = @ + 1], i)
     ELSE [s EXCEPT !.pend = Append(@, i), !.pc = "runner1",
                    !.calls = @ + 1, !.runs = @ + 1]
AtDoc(s, i) ==
  LET o == ops[i]
      p == FullPath(ActionFilePath(o.a))
  IN IF s.docs[p] # None THEN AfterDoc(s, i)
     ELSE IF o.a \in s.rn[o.m].executed
     THEN AfterDoc([s EXCEPT !.calls = @ + 1], i)  \* the runner returns at once
     ELSE [s EXCEPT !.rn[o.m].executed = IF o.streaming THEN @ ELSE @ \cup {o.a},
                    !.pend = Append(@, i), !.pc = "runner1",
                    !.calls = @ + 1, !.runs = @ + 1]

\* `await getWebContainer()` resumes: lines 436-458 up to the next await
ResumeWc(i) ==
  LET o == ops[i]
      p == FullPath(ActionFilePath(o.a))
      s == AtDoc(RunContext, i)
  IN /\ wcWaiters # <<>> /\ i = Head(wcWaiters)
     /\ wcWaiters' = Tail(wcWaiters)
     /\ selectedFile' = p
     /\ currentView' = "code"
     /\ documents' = s.docs /\ runner' = s.rn
     /\ pendingRuns' = s.pend /\ pendingSaves' = s.saves
     /\ ops' = GoOn(i, s)
     /\ step' = Label("resumeWc", None, FALSE)
     /\ UNCHANGED <<regVars, runnerLog, started, files, unsavedFiles, clockVars>>
     /\ UNCHANGED <<saveAllRuns, bootVars, extVars>>

\* the runner's executions of one artifact finish in the order they were started
RunnerTurn(i) ==
  \E k \in 1..Len(pendingRuns) :
     /\ pendingRuns[k] = i
     /\ \A j \in 1..(k - 1) : ops[pendingRuns[j]].m # ops[i].m

\* an execution of the runner finishes (a file action has written its file) and
\* the _runAction awaiting it goes on
RunnerComplete(i) ==
  LET o == ops[i]
      p == FullPath(ActionFilePath(o.a))
      s0 == [RunContext EXCEPT !.pend = Without(pendingRuns, i), !.pc = "done"]
      s == IF o.pc = "runner1" THEN AfterDoc(s0, i) ELSE s0
  IN /\ RunnerTurn(i)
     /\ files' = IF ActionType(o.a) = "file" THEN [files EXCEPT ![p] = o.content] ELSE files
     /\ documents' = s.docs /\ runner' = s.rn
     /\ pendingRuns' = s.pend /\ pendingSaves' = s.saves
     /\ ops' = GoOn(i, s)
     /\ step' = Label("runnerComplete", None, FALSE)
     /\ UNCHANGED <<regVars, runnerLog, started, wcWaiters, unsavedFiles, viewVars,
                    clockVars>>
     /\ UNCHANGED <<saveAllRuns, bootVars, extVars>>

(* -------------------------------- saves -------------------------------- *)
\* saveFile(filePath) up to `await this.#filesStore.saveFile(filePath, document.value)`
SaveFile(p) ==
  /\ step' = Label("saveFile", p, documents[p] = None)
  /\ pendingSaves' = IF documents[p] = None THEN pendingSaves
                     ELSE Append(pendingSaves, [path |-> p, value |-> documents[p], op |-> 0])
  /\ UNCHANGED <<regVars, runner, runnerLog, pendingRuns, queueVars, files, documents,
                 unsavedFiles, viewVars, clockVars>>
  /\ UNCHANGED <<saveAllRuns, bootVars, extVars>>

\* lines 209-211: the unsaved set after saveFile(p) has written the file
ClearUnsaved_all(unsaved, p) == {}
ClearUnsaved(unsaved, p) == unsaved \ {p}

\* saveAllFiles' loop: saveFile returns at once for a path without a document
RECURSIVE NextToSave(_, _)
NextToSave(todo, docs) ==
  IF todo = <<>> THEN <<>>
  ELSE IF docs[Head(todo)] = None THEN NextToSave(Tail(todo), docs)
  ELSE todo

\* the loop of the r-th saveAllFiles call goes on over `todo`, given the saves in flight
SaveAllGoOn(r, todo, saves, docs) ==
  LET t == NextToSave(todo, docs) IN
  IF t = <<>>
  THEN [run |-> [todo |-> <<>>, state |-> "done"], saves |-> saves]
  ELSE [run |-> [todo |-> Tail(t), state |-> "saving"],
        saves |-> Append(saves, [path |-> Head(t), value |-> docs[Head(t)], op |-> 0 - r])]

\* the orders in which a set of paths can be iterated
Orders(S) == {q \in [1..Cardinality(S) -> S] : \A x \in S : \E k \in DOMAIN q : q[k] = x}

\* saveAllFiles(): iterates over the unsavedFiles set held at the call
SaveAllFiles(order) ==
  LET r == Len(saveAllRuns) + 1
      g == SaveAllGoOn(r, order, pendingSaves, documents)
  IN /\ order \in Orders(unsavedFiles)
     /\ saveAllRuns' = Append(saveAllRuns, g.run)
     /\ pendingSaves' = g.saves
     /\ step' = Label("saveAllFiles", None, g.run.state = "done")
     /\ UNCHANGED <<regVars, runner, runnerLog, pendingRuns, queueVars, files, documents,
                    unsavedFiles, viewVars, clockVars>>
     /\ UNCHANGED <<bootVars, extVars>>

\* FilesStore.saveFile settles and saveFile resumes: on success the File Table
\* holds the value and lines 209-211 clear the path from unsavedFiles, then the
\* _runAction that awaited saveFile goes on (lines 455-458), or saveAllFiles
\* takes its next path; on failure the awaiting function throws
SaveComplete(k, ok) ==
  LET sv == pendingSaves[k]
      s0 == [RunContext EXCEPT !.saves = RemoveAt(pendingSaves, k)]
      g == SaveAllGoOn(0 - sv.op, saveAllRuns[0 - sv.op].todo, s0.saves, documents)
      s == IF sv.op = 0 THEN s0
           ELSE IF sv.op < 0 THEN (IF ok THEN [s0 EXCEPT !.saves = g.saves] ELSE s0)
           ELSE IF ok THEN FinalRun(s0, sv.op) ELSE [s0 EXCEPT !.pc = "failed"]
  IN /\ k \in 1..Len(pendingSaves)
     /\ files' = IF ok THEN [files EXCEPT ![sv.path] = sv.value] ELSE files
     /\ unsavedFiles' = IF ok THEN ClearUnsaved(unsavedFiles, sv.path) ELSE unsavedFiles
     /\ documents' = s.docs /\ runner' = s.rn
     /\ pendingRuns' = s.pend /\ pendingSaves' = s.saves
     /\ ops' = IF sv.op <= 0 THEN ops ELSE GoOn(sv.op, s)
     /\ saveAllRuns' = IF sv.op >= 0 THEN saveAllRuns
                       ELSE IF ok THEN [saveAllRuns EXCEPT ![0 - sv.op] = g.run]
                       ELSE [saveAllRuns EXCEPT ![0 - sv.op] = [todo |-> <<>>, state |-> "failed"]]
     /\ step' = Label("saveComplete", sv.path, ok)
     /\ UNCHANGED <<regVars, runnerLog, started, wcWaiters, viewVars, clockVars>>
     /\ UNCHANGED <<bootVars, extVars>>

(* --------------------------- streaming path ---------------------------- *)
\* the sampled function: `_runAction(data, isStreaming)` called at once, outside the queue
StartStreaming(m, a, c) ==
  /\ ops' = Append(ops, [kind |-> "run", m |-> m, a |-> a, content |-> c,
                         streaming |-> TRUE, pc |-> RunSyncPc(m, a),
                         runnerCalls |-> SyncCalls(m, a), runnerRuns |-> SyncCalls(m, a)])
  /\ RunSync(Len(ops) + 1, m, a)
  /\ lastStreamStart' = {now}
  /\ UNCHANGED started

\* createSampler(fn, 100): at most one execution per interval, calls made inside
\* the interval are dropped
ActionStreamSampler(m, a, c) ==
  IF now - lastTime < SampleInterval
  THEN UNCHANGED wbVars
  ELSE lastTime' = now /\ StartStreaming(m, a, c)

\* runAction(data, isStreaming)
RunAction_unsampled(m, a, c, isStreaming) ==
  IF isStreaming
  THEN StartStreaming(m, a, c) /\ UNCHANGED lastTime
  ELSE Enqueue("run", m, a, c)
RunAction(m, a, c, isStreaming) ==
  IF isStreaming
  THEN ActionStreamSampler(m, a, c)
  ELSE Enqueue("run", m, a, c)

RunActionCall(m, a, c, isStreaming) ==
  /\ RunAction(m, a, c, isStreaming)
  /\ step' = Label("runAction", None, ops' = ops)
  /\ UNCHANGED <<saveAllRuns, bootVars, extVars>>

\* time passes
Tick ==
  /\ now < MaxTime
  /\ now' = now + TickMs
  /\ step' = Label("tick", None, FALSE)
  /\ UNCHANGED <<regVars, runner, runnerLog, ioVars, queueVars, files, documents,
                 unsavedFiles, viewVars, lastTime, lastStreamStart>>
  /\ UNCHANGED <<saveAllRuns, bootVars, extVars>>

(* ------------------------------- editor -------------------------------- *)
\* EditorStore.setDocuments(files): a document for every file of the File Table
EditorSetDocuments(docs, f) ==
  [p \in Paths |-> IF f[p] = None THEN None ELSE IF docs[p] # None THEN docs[p] ELSE f[p]]

\* the first file entry of the File Table
FirstFile(f) == CHOOSE p \in Paths : f[p] # None

\* setDocuments(files), called by the workbench view when the File Table changed
SetDocuments ==
  /\ documents # EditorSetDocuments(documents, files)
  /\ documents' = EditorSetDocuments(documents, files)
  /\ selectedFile' = IF (\E p \in Paths : files[p] # None)
                        /\ (selectedFile = None \/ documents'[selectedFile] = None)
                     THEN FirstFile(files) ELSE selectedFile
  /\ step' = Label("setDocuments", None, FALSE)
  /\ UNCHANGED <<regVars, runner, runnerLog, ioVars, queueVars, files, unsavedFiles,
                 currentView, clockVars>>
  /\ UNCHANGED <<saveAllRuns, bootVars, extVars>>

\* lines 179-188: the unsaved set after the current document got its content
NewUnsavedFiles_addOnly(unsaved, filePath, unsavedChanges) ==
  IF unsavedChanges THEN unsaved \cup {filePath} ELSE unsaved
NewUnsavedFiles(unsaved, filePath, unsavedChanges) ==
  IF unsavedChanges /\ filePath \in unsaved THEN unsaved
  ELSE IF unsavedChanges THEN unsaved \cup {filePath}
  ELSE unsaved \ {filePath}

\* the body of setCurrentDocumentContent(newContent) past `if (!filePath) return`
WriteCurrentDocument(c) ==
  LET filePath == CurrentDocument
      originalContent == files[filePath]
      unsavedChanges == originalContent # None /\ originalContent # c
  IN /\ documents' = UpdateFile(documents, filePath, c)
     /\ unsavedFiles' = NewUnsavedFiles(unsavedFiles, filePath, unsavedChanges)
     /\ UNCHANGED <<regVars, runner, runnerLog, ioVars, queueVars, files, viewVars,
                    clockVars>>
     /\ UNCHANGED <<saveAllRuns, bootVars, extVars>>

\* setCurrentDocumentContent(newContent)
SetCurrentDocumentContent(c) ==
  /\ CurrentDocument # None
  /\ WriteCurrentDocument(c)
  /\ step' = Label("setCurrentDocumentContent", None, FALSE)

\* setSelectedFile(filePath)
SetSelectedFile(p) ==
  /\ selectedFile' = p
  /\ step' = Label("setSelectedFile", p, FALSE)
  /\ UNCHANGED <<regVars, runner, runnerLog, ioVars, queueVars, files, documents,
                 unsavedFiles, currentView, clockVars>>
  /\ UNCHANGED <<saveAllRuns, bootVars, extVars>>

\* resetCurrentDocument()
ResetCurrentDocument ==
  LET returns == CurrentDocument = None \/ files[CurrentDocument] = None IN
  /\ step' = Label("resetCurrentDocument", None, returns)
  /\ IF returns
     THEN UNCHANGED <<wbVars, bootVars, extVars>>
     ELSE WriteCurrentDocument(files[CurrentDocument])

(* ------------------------ file and folder changes ---------------------- *)
\* the folders the user creates and deletes
Folders == {WorkDir, WorkDir \o "/lib"}

\* `path.startsWith(folderPath + '/')`: every path of Paths lies directly in WorkDir
InFolder(path, folderPath) == path \in Paths /\ folderPath = WorkDir

\* the first `type === 'file'` entry of the File Table, undefined when there is none
NextFile(f) == IF \E p \in Paths : f[p] # None THEN FirstFile(f) ELSE None

\* a queued action operation has started and not settled
ActionInFlight == \E i \in QueueOps : ops[i].pc \in InFlight

\* createFile, createFolder, deleteFile or deleteFolder up to its
\* `await this.#filesStore...`: the FilesStore call is made when the handler is
\* called, not through addToExecutionQueue
Mutate(kind, path, content, isCurrent) ==
  /\ mutations' = Append(mutations, [kind |-> kind, path |-> path, content |-> content,
                                     isCurrent |-> isCurrent, pc |-> "pending"])
  /\ step' = Label(kind, path, isCurrent)
  /\ UNCHANGED <<wbVars, bootVars, pvVars, histVars, push, takes, alerts, served>>

\* createFile(filePath, content)
CreateFile(filePath, content) == Mutate("createFile", filePath, content, FALSE)

\* createFolder(folderPath)
CreateFolder(folderPath) == Mutate("createFolder", folderPath, "", FALSE)

\* deleteFile(filePath)
DeleteFile(filePath) == Mutate("deleteFile", filePath, "", CurrentDocument = filePath)

\* deleteFolder(folderPath)
DeleteFolder(folderPath) ==
  Mutate("deleteFolder", folderPath, "",
         CurrentDocument # None /\ InFolder(CurrentDocument, folderPath))

\* the File Table after the FilesStore call of mutation mu succeeded
Mutated(f, mu) ==
  [p \in Paths |->
     IF mu.kind = "createFile" /\ p = mu.path THEN mu.content
     ELSE IF mu.kind = "deleteFile" /\ p = mu.path THEN None
     ELSE IF mu.kind = "deleteFolder" /\ InFolder(p, mu.path) THEN None
     ELSE f[p]]

\* the paths a successful mutation takes out of unsavedFiles
Gone_none(mu, unsaved) == {}
Gone(mu, unsaved) ==
  IF mu.kind = "createFile" /\ mu.content = "" THEN {mu.path}
  ELSE IF mu.kind = "deleteFile" THEN {mu.path}
  ELSE IF mu.kind = "deleteFolder" THEN {p \in unsaved : InFolder(p, mu.path)}
  ELSE {}

\* the FilesStore call of the k-th mutation settles (it returns true or false,
\* or it throws) and the handler runs to its end
MutationSettles(k, outcome) ==
  LET mu == mutations[k]
      success == outcome = "true"
      gone == Gone(mu, unsavedFiles)
  IN /\ k \in 1..Len(mutations) /\ mu.pc = "pending"
     /\ mutations' = [mutations EXCEPT ![k].pc = IF outcome = "throw" THEN "rejected"
                                                 ELSE outcome]
     /\ files' = IF success THEN Mutated(files, mu) ELSE files
     /\ unsavedFiles' = IF success THEN unsavedFiles \ gone ELSE unsavedFiles
     /\ selectedFile' = IF ~success THEN selectedFile
                        ELSE IF mu.kind = "createFile" THEN mu.path
                        ELSE IF mu.isCurrent THEN NextFile(files')
                        ELSE selectedFile
     /\ step' = Label("mutationSettles", mu.kind, success)
     /\ UNCHANGED <<regVars, runner, runnerLog, ioVars, saveAllRuns, queueVars, documents,
                    currentView, clockVars>>
     /\ UNCHANGED <<bootVars, pvVars, histVars, push, takes, alerts, served>>

\* abortAllActions(): the body is empty
Aborted_cancelQueued(o) == IF o.pc = "queued" THEN [o EXCEPT !.pc = "skipped"] ELSE o
Aborted(o) == o

AbortAllActions ==
  /\ ops' = [i \in DOMAIN ops |-> Aborted(ops[i])]
  /\ step' = Label("abortAllActions", None, FALSE)
  /\ UNCHANGED <<regVars, runner, runnerLog, ioVars, saveAllRuns, started, wcWaiters, files,
                 documents, unsavedFiles, viewVars, clockVars>>
  /\ UNCHANGED <<bootVars, extVars>>

(* --------------------------- getWebContainer --------------------------- *)
\* `if (import.meta.env.SSR)`
EnvSSR_never == FALSE
EnvSSR == ssr

\* `hot?.data.webcontainer`: the cached promise (0: none)
HotCache == IF hot THEN hotData.webcontainer ELSE 0

\* getWebContainer(): the synchronous call; every call returns a promise
GetWebContainer ==
  LET new == Len(promises) + 1 IN
  /\ step' = Label("getWebContainer", None, EnvSSR)
  /\ IF EnvSSR
     THEN \* Promise.reject(new Error(...))
          /\ promises' = Append(promises, "rejected")
          /\ returned' = Append(returned, new)
          /\ UNCHANGED <<hotData, webcontainerContext>>
     ELSE IF HotCache # 0
     THEN /\ returned' = Append(returned, HotCache)
          /\ UNCHANGED <<promises, hotData, webcontainerContext>>
     ELSE /\ webcontainerContext' = [webcontainerContext EXCEPT !.booting = TRUE,
                                                                !.lastError = None]
          /\ promises' = Append(promises, "created")
          /\ hotData' = IF hot THEN [hotData EXCEPT !.webcontainer = new] ELSE hotData
          /\ returned' = Append(returned, new)
  /\ UNCHANGED <<ssr, hot, bootCount, listeners, generation>>
  /\ UNCHANGED <<wbVars, extVars>>

\* the first `.then` of promise k runs: WebContainer.boot(...) is invoked
BootInvoke(k) ==
  /\ promises[k] = "created"
  /\ promises' = [promises EXCEPT ![k] = "booting"]
  /\ bootCount' = bootCount + 1
  /\ step' = Label("boot", None, FALSE)
  /\ UNCHANGED <<ssr, hot, hotData, returned, webcontainerContext, listeners, generation>>
  /\ UNCHANGED <<wbVars, extVars>>

\* the boot of promise k succeeds: the second `.then` (lines 365-403)
BootResolve(k) ==
  LET attached == hot /\ hotData.previewListenerAttached IN
  /\ promises[k] = "booting"
  /\ promises' = [promises EXCEPT ![k] = "fulfilled"]
  /\ webcontainerContext' = [webcontainerContext EXCEPT !.loaded = TRUE, !.booting = FALSE]
  /\ listeners' = IF attached THEN listeners ELSE listeners + 1
  /\ hotData' = IF hot THEN [hotData EXCEPT !.previewListenerAttached = TRUE] ELSE hotData
  /\ step' = Label("bootResolve", None, attached)
  /\ UNCHANGED <<ssr, hot, returned, bootCount, generation>>
  /\ UNCHANGED <<wbVars, extVars>>

\* the boot of promise k fails: the `.catch` (lines 404-411) records and re-throws
BootReject(k) ==
  /\ promises[k] = "booting"
  /\ promises' = [promises EXCEPT ![k] = "rejected"]
  /\ webcontainerContext' = [loaded |-> FALSE, booting |-> FALSE, lastError |-> "boot failed"]
  /\ step' = Label("bootReject", None, FALSE)
  /\ UNCHANGED <<ssr, hot, hotData, returned, bootCount, listeners, generation>>
  /\ UNCHANGED <<wbVars, extVars>>

\* hot reload: the module is evaluated again; hot.data and the context object it
\* holds (lines 326-334) are carried over
HotReload ==
  /\ hot /\ generation < MaxReloads
  /\ generation' = generation + 1
  /\ step' = Label("hotReload", None, FALSE)
  /\ UNCHANGED <<ssr, hot, hotData, promises, returned, webcontainerContext, bootCount,
                 listeners>>
  /\ UNCHANGED <<wbVars, extVars>>

(* ---------------------------- PreviewsStore ---------------------------- *)
\* the preview urls the runtime reports: scheme and host labels
Url(label) == [scheme |-> "https",
               host |-> <<label, "local-credentialless", "webcontainer-api", "io">>]
Urls == {Url("pv1"), Url("pv2")}
Ports == {3000, 3001}
PortEventTypes == {"open", "close"}

\* getPreviewId(url): the first capture of
\* /^https?:\/\/([^.]+)\.local-credentialless\.webcontainer-api\.io/
GetPreviewId(url) ==
  IF /\ url.scheme \in {"http", "https"}
     /\ Len(url.host) >= 4
     /\ url.host[1] # ""
     /\ SubSeq(url.host, 2, 4) = <<"local-credentialless", "webcontainer-api", "io">>
  THEN url.host[1] ELSE None

PreviewIds == {GetPreviewId(u) : u \in Urls}

\* what other tabs post on the preview-updates channel
MsgTimestamps == {SampleInterval, SampleInterval + PreviewTickMs}
ChannelMsgs ==
  [type : {"file-change"}, previewId : {GetPreviewId(Url("pv1"))}, timestamp : MsgTimestamps]
  \cup [type : {"state-change"}, previewId : {GetPreviewId(Url("pv1"))},
        timestamp : {SampleInterval + PreviewTickMs}]

\* Math.random().toString(36).substring(2, 15)
TabIds == {"t1", "t2"}
\* what other tabs post on the storage-sync channel
StorageMsgs == [storage : BOOLEAN, source : TabIds]

\* the step label's event when a step of the registry has none to name
NoEvent == [type |-> None]

\* the preview ids of a list of PreviewInfo objects, in list order
PreviewIdsOf(h, list) ==
  LET ids == [k \in 1..Len(list) |-> GetPreviewId(h[list[k]].baseUrl)]
  IN SelectSeq(ids, LAMBDA x : x # None)

\* previews.find((p) => this.getPreviewId(p.baseUrl) === previewId) (0: not found)
FindPreview(h, list, previewId) ==
  LET hits == {k \in 1..Len(list) : GetPreviewId(h[list[k]].baseUrl) = previewId}
  IN IF hits = {} THEN 0
     ELSE list[CHOOSE k \in hits : \A j \in hits : k <= j]

\* clearTimeout(existingTimeout)
ClearTimeout_none(tm, handle) == tm
ClearTimeout(tm, handle) == {t \in tm : t.tid # handle}

\* setTimeout's handle: one no pending timeout has
NewTimerId(tm) ==
  CHOOSE n \in 1..(Cardinality(tm) + 1) :
     /\ \A t \in tm : t.tid # n
     /\ \A k \in 1..(n - 1) : \E t \in tm : t.tid = k

\* refreshPreview(previewId), on the timeouts r = [rt: #refreshTimeouts, tm: pending].
\* A pending timeout is [tid: its handle, pid: the preview id of its closure,
\* due: when it may run, calls: how many refreshPreview calls it stands for
\* (itself and the ones whose timeout it replaced; bookkeeping only)]
RefreshPreview(r, previewId) ==
  LET existing == r.rt[previewId]
      old == {t \in r.tm : t.tid = existing}
      tm1 == IF existing # 0 THEN ClearTimeout(r.tm, existing) ELSE r.tm
      new == NewTimerId(tm1)
      calls == IF old = {} THEN 1 ELSE (CHOOSE t \in old : TRUE).calls + 1
  IN [rt |-> [r.rt EXCEPT ![previewId] = new],
      tm |-> tm1 \cup {[tid |-> new, pid |-> previewId, due |-> now + RefreshDelay,
                        calls |-> calls]}]

\* refreshPreview for each preview id of a list, in order
RECURSIVE RefreshEach(_, _)
RefreshEach(r, ids) ==
  IF ids = <<>> THEN r ELSE RefreshEach(RefreshPreview(r, Head(ids)), Tail(ids))

\* the `timestamp > lastUpdate` test of the preview-updates handler
IsNewer_orEqual(timestamp, last) == timestamp >= last
IsNewer(timestamp, last) == timestamp > last

\* the preview-updates channel's onmessage (lines 45-55), for the oldest message
OnPreviewMessage ==
  LET msg == Head(inbox)
      last == lastUpdate[msg.previewId]
      apply == msg.type = "file-change" /\ IsNewer(msg.timestamp, last)
      r == RefreshPreview([rt |-> refreshTimeouts, tm |-> timers], msg.previewId)
  IN /\ inbox # <<>>
     /\ inbox' = Tail(inbox)
     /\ received' = received + 1
     /\ lastUpdate' = IF apply THEN [lastUpdate EXCEPT ![msg.previewId] = msg.timestamp]
                      ELSE lastUpdate
     /\ refreshTimeouts' = IF apply THEN r.rt ELSE refreshTimeouts
     /\ timers' = IF apply THEN r.tm ELSE timers
     /\ step' = Label("onPreviewMessage", msg, apply)
     /\ UNCHANGED <<heap, availablePreviews, previews, rafs, posted, portEvents, tabId,
                    storageInbox, storageApplied, storageSeen>>
     /\ UNCHANGED <<now, outsidePreview>>

\* another tab posts on the preview-updates channel
OtherTabPosts(msg) ==
  /\ inbox' = Append(inbox, msg)
  /\ step' = Label("otherTabPosts", msg, FALSE)
  /\ UNCHANGED <<heap, availablePreviews, previews, lastUpdate, refreshTimeouts, timers,
                 rafs, posted, portEvents, received, tabId, storageInbox, storageApplied, storageSeen>>
  /\ UNCHANGED <<now, outsidePreview>>

\* broadcastUpdate(url) / broadcastFileChange(previewId): what is posted and recorded
BroadcastMsg(previewId) == [type |-> "file-change", previewId |-> previewId, timestamp |-> now]

\* the runtime's 'port' listener (lines 187-212)
PortEvent(port, type, url) ==
  LET known == availablePreviews[port]
      obj == IF known = 0 THEN Len(heap) + 1 ELSE known
      info == [port |-> port, ready |-> type = "open", baseUrl |-> url]
      previewId == GetPreviewId(url)
  IN /\ portEvents' = portEvents + 1
     /\ step' = Label("port", [port |-> port, url |-> url], type = "open")
     /\ IF type = "close" /\ known # 0
        THEN /\ availablePreviews' = [availablePreviews EXCEPT ![port] = 0]
             /\ previews' = SelectSeq(previews, LAMBDA o : heap[o].port # port)
             /\ UNCHANGED <<heap, lastUpdate, posted>>
        ELSE /\ heap' = IF known = 0 THEN Append(heap, info)
                        ELSE [heap EXCEPT ![known].ready = type = "open",
                                          ![known].baseUrl = url]
             /\ availablePreviews' = [availablePreviews EXCEPT ![port] = obj]
             /\ previews' = IF known = 0 THEN Append(previews, obj) ELSE previews
             /\ IF type = "open" /\ previewId # None
                THEN /\ lastUpdate' = [lastUpdate EXCEPT ![previewId] = now]
                     /\ posted' = Append(posted, BroadcastMsg(previewId))
                ELSE UNCHANGED <<lastUpdate, posted>>
     /\ UNCHANGED <<refreshTimeouts, timers, rafs, inbox, received, tabId, storageInbox,
                    storageApplied, storageSeen>>
     /\ UNCHANGED <<now, outsidePreview>>

\* the timeout of refreshPreview runs (lines 271-283)
TimeoutFires(t) ==
  LET preview == FindPreview(heap, previews, t.pid) IN
  /\ t \in timers /\ now >= t.due
  /\ timers' = timers \ {t}
  /\ refreshTimeouts' = [refreshTimeouts EXCEPT ![t.pid] = 0]
  /\ IF preview # 0
     THEN /\ heap' = [heap EXCEPT ![preview].ready = FALSE]
          /\ rafs' = Append(rafs, [preview |-> preview, previews |-> previews])
     ELSE UNCHANGED <<heap, rafs>>
  /\ step' = Label("refreshTimeout", t, preview # 0)
  /\ UNCHANGED <<availablePreviews, previews, lastUpdate, inbox, posted, portEvents,
                 received, tabId, storageInbox, storageApplied, storageSeen>>
  /\ UNCHANGED <<now, outsidePreview>>

\* the animation-frame callback of refreshPreview runs (lines 277-280)
AnimationFrame ==
  /\ rafs # <<>>
  /\ rafs' = Tail(rafs)
  /\ heap' = [heap EXCEPT ![Head(rafs).preview].ready = TRUE]
  /\ previews' = Head(rafs).previews
  /\ step' = Label("animationFrame", NoEvent, FALSE)
  /\ UNCHANGED <<availablePreviews, lastUpdate, refreshTimeouts, timers, inbox, posted,
                 portEvents, received, tabId, storageInbox, storageApplied, storageSeen>>
  /\ UNCHANGED <<now, outsidePreview>>

\* _getTabId(): window._tabId, generated when missing
GetTabId_fresh(id, fresh) == fresh
GetTabId(id, fresh) == IF id = None THEN fresh ELSE id

\* `source !== this._getTabId()`
FromOtherTab_any(source, id) == TRUE
FromOtherTab(source, id) == source # id

\* the storage-sync channel's onmessage (lines 58-63) with _syncStorage (93-116)
OnStorageMessage(fresh) ==
  LET msg == Head(storageInbox)
      id == GetTabId(tabId, fresh)
      apply == msg.storage /\ FromOtherTab(msg.source, id)
      r == RefreshEach([rt |-> refreshTimeouts, tm |-> timers], PreviewIdsOf(heap, previews))
  IN /\ storageInbox # <<>>
     /\ storageInbox' = Tail(storageInbox)
     /\ storageSeen' = storageSeen + 1
     /\ tabId' = IF msg.storage THEN id ELSE tabId
     /\ storageApplied' = IF apply THEN Append(storageApplied, msg.source) ELSE storageApplied
     /\ refreshTimeouts' = IF apply THEN r.rt ELSE refreshTimeouts
     /\ timers' = IF apply THEN r.tm ELSE timers
     /\ step' = Label("onStorageMessage", msg, apply)
     /\ UNCHANGED <<heap, availablePreviews, previews, lastUpdate, rafs, inbox, posted,
                    portEvents, received>>
     /\ UNCHANGED <<now, outsidePreview>>

\* another tab posts on the storage-sync channel
OtherTabSyncs(msg) ==
  /\ storageInbox' = Append(storageInbox, msg)
  /\ step' = Label("otherTabSyncs", msg, FALSE)
  /\ UNCHANGED <<heap, availablePreviews, previews, lastUpdate, refreshTimeouts, timers,
                 rafs, inbox, posted, portEvents, received, tabId, storageApplied, storageSeen>>
  /\ UNCHANGED <<now, outsidePreview>>

\* _broadcastStorageSync() (lines 119-137): posts the storage with this tab's id
BroadcastStorageSync(fresh) ==
  /\ tabId' = GetTabId(tabId, fresh)
  /\ step' = Label("broadcastStorageSync", [source |-> tabId'], tabId = None)
  /\ UNCHANGED <<heap, availablePreviews, previews, lastUpdate, refreshTimeouts, timers,
                 rafs, inbox, posted, portEvents, received, storageInbox, storageApplied, storageSeen>>
  /\ UNCHANGED <<now, outsidePreview>>

\* time passes for the preview registry
PreviewTick ==
  /\ now < MaxPreviewTime
  /\ now' = now + PreviewTickMs
  /\ step' = Label("tick", NoEvent, FALSE)
  /\ UNCHANGED <<pvVars, outsidePreview>>

InitPreview ==
  /\ heap = <<>>
  /\ availablePreviews = [p \in Ports |-> 0]
  /\ previews = <<>>
  /\ lastUpdate = [i \in PreviewIds |-> 0]
  /\ refreshTimeouts = [i \in PreviewIds |-> 0]
  /\ timers = {} /\ rafs = <<>>
  /\ inbox = <<>> /\ posted = <<>>
  /\ portEvents = 0 /\ received = 0
  /\ tabId = None
  /\ storageInbox = <<>> /\ storageApplied = <<>> /\ storageSeen = 0

(* ---------------------------- useChatHistory --------------------------- *)
\* Paths of the snapshot are sequences of chunks, so that startsWith(workdir)
\* and replace(workdir, '') are operations on a prefix: <<WorkDir, "/d", "/f.txt">>
\* is /home/project/d/f.txt and <<"/d", "/f.txt">> is /d/f.txt.
StartsWith(path, prefix) ==
  Len(path) >= Len(prefix) /\ SubSeq(path, 1, Len(prefix)) = prefix
\* relPath after `if (relPath.startsWith(wc.workdir)) relPath = relPath.replace(wc.workdir, '')`
RelPath(key, workdir) ==
  IF StartsWith(key, workdir) THEN SubSeq(key, Len(workdir) + 1, Len(key)) ELSE key

\* the values of a FileMap: a folder, a text file, a binary file, undefined
Folder == [type |-> "folder"]
File(content, isBinary) == [type |-> "file", content |-> content, isBinary |-> isBinary]
NoDirent == [type |-> "undefined"]
Entry(key, value) == [key |-> key, value |-> value]

\* Object.entries(files) of the FileMaps a snapshot holds, in insertion order:
\* empty; a folder, a text file in it and a binary file; a file listed before
\* its folder; a deleted (undefined) entry and an empty file
FileMaps ==
  { <<>>,
    << Entry(<<WorkDir, "/d">>, Folder),
       Entry(<<WorkDir, "/d", "/f.txt">>, File("x", FALSE)),
       Entry(<<WorkDir, "/g.bin">>, File("b", TRUE)) >>,
    << Entry(<<WorkDir, "/d", "/f.txt">>, File("x", FALSE)),
       Entry(<<WorkDir, "/d">>, Folder) >>,
    << Entry(<<WorkDir, "/old.txt">>, NoDirent),
       Entry(<<WorkDir, "/a.txt">>, File("", FALSE)) >> }

\* the `snapshot` argument or load result that is undefined
Undefined == [undefined |-> TRUE]
\* snapshot || { chatIndex: '', files: {} }
ValidSnapshot(snapshot) ==
  IF snapshot = Undefined THEN [chatIndex |-> "", files |-> <<>>] ELSE snapshot

\* { encoding: value.isBinary ? undefined : 'utf8' }
Encoding_utf8(value) == "utf8"
Encoding(value) == IF value.isBinary THEN None ELSE "utf8"

\* the next entry of the given type at or after index i (0: none)
NextOfType(entries, type, i) ==
  LET hits == {k \in i..Len(entries) : entries[k].value.type = type}
  IN IF hits = {} THEN 0 ELSE CHOOSE k \in hits : \A j \in hits : k <= j

\* where restoreSnapshot suspends next when it goes on from entry i of a loop:
\* the mkdir of the next folder, else the writeFile of the next file, else done
NextAwait_onePass(entries, phase, i) ==
  LET d == NextOfType(entries, "folder", i)
      f == NextOfType(entries, "file", i)
  IN IF d # 0 /\ (f = 0 \/ d < f) THEN [pc |-> "mkdir", i |-> d]
     ELSE IF f # 0 THEN [pc |-> "writeFile", i |-> f]
     ELSE [pc |-> "done", i |-> 0]
NextAwait(entries, phase, i) ==
  LET d == IF phase = "mkdir" THEN NextOfType(entries, "folder", i) ELSE 0
      f == NextOfType(entries, "file", IF phase = "mkdir" THEN 1 ELSE i)
  IN IF d # 0 THEN [pc |-> "mkdir", i |-> d]
     ELSE IF f # 0 THEN [pc |-> "writeFile", i |-> f]
     ELSE [pc |-> "done", i |-> 0]

\* the runtime's file system: fs.mkdir(path, { recursive: true }) makes the
\* folder and its missing ancestors; fs.writeFile(path, data, { encoding })
\* stores the data under the encoding, and needs the parent folder
Prefixes(path) == {SubSeq(path, 1, k) : k \in 1..Len(path)}
IsFolder(fs, path) == path = <<>> \/ \E e \in fs : e.path = path /\ e.type = "folder"
Mkdir(fs, path) ==
  {e \in fs : e.path \notin Prefixes(path)}
    \cup {e \in fs : e.path \in Prefixes(path) /\ e.type = "folder"}
    \cup {[path |-> q, type |-> "folder"] :
             q \in {x \in Prefixes(path) : ~\E e \in fs : e.path = x /\ e.type = "folder"}}
CanWrite(fs, path) ==
  /\ path # <<>>
  /\ IsFolder(fs, SubSeq(path, 1, Len(path) - 1))
  /\ ~IsFolder(fs, path)
WriteFile(fs, path, data, encoding) ==
  {e \in fs : e.path # path}
    \cup {[path |-> path, type |-> "file", data |-> data, encoding |-> encoding]}

\* restoreSnapshot(id, snapshot) up to `await getWebContainer()`: a new run
RestoreSnapshot(runs, by, snapshot) ==
  Append(runs, [by |-> by, files |-> ValidSnapshot(snapshot).files, pc |-> "boot", i |-> 0,
                calls |-> <<>>])

\* the runtime calls a run has issued, in order, each with whether it has settled
Settle(calls) == [k \in DOMAIN calls |-> [calls[k] EXCEPT !.settled = TRUE]]
Issue(calls, next) ==
  IF next.pc \in {"mkdir", "writeFile"}
  THEN Append(calls, [op |-> next.pc, i |-> next.i, settled |-> FALSE])
  ELSE calls

\* a run of restoreSnapshot goes on after the promise it awaits has settled
\* (ok: fulfilled), up to its next await or its end
RestoreAdvance(r, ok) ==
  LET run == restoreRuns[r]
      entries == run.files
      key == entries[run.i].key
      value == entries[run.i].value
      relPath == RelPath(key, <<WorkDir>>)
      settled == IF run.pc = "boot" THEN ok
                 ELSE IF run.pc = "mkdir" THEN ok /\ relPath # <<>>
                 ELSE ok /\ CanWrite(runtimeFs, relPath)
      next == IF run.pc = "boot" THEN NextAwait(entries, "mkdir", 1)
              ELSE NextAwait(entries, run.pc, run.i + 1)
  IN /\ r \in 1..Len(restoreRuns)
     /\ run.pc \in {"boot", "mkdir", "writeFile"}
     /\ runtimeFs' = IF ~settled \/ run.pc = "boot" THEN runtimeFs
                     ELSE IF run.pc = "mkdir" THEN Mkdir(runtimeFs, relPath)
                     ELSE WriteFile(runtimeFs, relPath, value.content, Encoding(value))
     /\ restoreRuns' = [restoreRuns EXCEPT ![r] =
                          IF settled
                          THEN [run EXCEPT !.pc = next.pc, !.i = next.i,
                                           !.calls = Issue(Settle(@), next)]
                          ELSE [run EXCEPT !.pc = "failed", !.calls = Settle(@)]]
     /\ step' = Label("restoreAdvance", [run |-> r, pc |-> run.pc, i |-> run.i], settled)
     /\ UNCHANGED <<storedMessages, storedSnapshot, rewindTo, archivedMessages,
                    initialMessages, loadPc>>
     /\ UNCHANGED <<wbVars, bootVars, pvVars, sideVars>>

\* restoreSnapshot(id, snapshot) is called with the stored snapshot
RestoreSnapshotCall ==
  /\ restoreRuns' = RestoreSnapshot(restoreRuns, "call", storedSnapshot)
  /\ step' = Label("restoreSnapshot", [run |-> Len(restoreRuns) + 1], TRUE)
  /\ UNCHANGED <<storedMessages, storedSnapshot, rewindTo, archivedMessages,
                 initialMessages, loadPc, runtimeFs>>
  /\ UNCHANGED <<wbVars, bootVars, pvVars, sideVars>>

\* a stored message, and the transcripts getMessages returns
Message(id, role, text) ==
  [id |-> id, role |-> role, content |-> [text |-> text, actions |-> <<>>],
   annotations |-> <<>>]
Transcripts ==
  { <<>>,
    << Message("m1", "user", "q1"), Message("m2", "assistant", "r1"),
       Message("m3", "user", "q2") >> }
\* the snapshots getSnapshot returns (undefined: none stored) and the values
\* of the rewindTo search parameter (null: absent)
StoredSnapshots == {Undefined} \cup [chatIndex : {"m1", "m2", "m3", "zz"}, files : FileMaps]
RewindIds == {None, "", "m1", "m2", "m3", "zz"}
\* `rewindId ? ... : ...`
Truthy(id) == id # None /\ id # ""

\* messages.findIndex((m) => m.id === id), 0-based, -1 when there is none
FindIndex_first(msgs, id) ==
  LET hits == {k \in 1..Len(msgs) : msgs[k].id = id}
  IN IF hits = {} THEN 0 ELSE (CHOOSE k \in hits : \A j \in hits : k <= j) - 1
FindIndex(msgs, id) ==
  LET hits == {k \in 1..Len(msgs) : msgs[k].id = id}
  IN IF hits = {} THEN -1 ELSE (CHOOSE k \in hits : \A j \in hits : k <= j) - 1

\* messages.slice(from, to) for 0 <= from, 0 <= to
Slice(msgs, from, to) ==
  LET last == IF to < Len(msgs) THEN to ELSE Len(msgs)
  IN IF from >= last THEN <<>> ELSE SubSeq(msgs, from + 1, last)

\* the boltAction elements of the restored-project artifact: one per file entry
FileActions(entries) ==
  LET fs == SelectSeq(entries, LAMBDA e : e.value.type = "file")
  IN [k \in 1..Len(fs) |-> [type |-> "file", filePath |-> fs[k].key, content |-> fs[k].value.content]]

\* generateId()
GeneratedId == "generated"
\* the two messages that replace the archived part of the transcript
RestoreMessages(anchorId, snapshot) ==
  << [id |-> GeneratedId, role |-> "user",
      content |-> [text |-> "Restore project from snapshot", actions |-> <<>>],
      annotations |-> <<"no-store", "hidden">>],
     [id |-> anchorId, role |-> "assistant",
      content |-> [text |-> "Bolt Restored your chat from a snapshot.",
                   actions |-> FileActions(ValidSnapshot(snapshot).files)],
      annotations |-> <<"no-store">>] >>

\* lines 81-104 of the load effect: the indices and the two slices
LoadPlan(msgs, snapshot, rewindId) ==
  LET validSnapshot == ValidSnapshot(snapshot)
      endingIdx == IF Truthy(rewindId) THEN FindIndex(msgs, rewindId) + 1 ELSE Len(msgs)
      snapshotIndex == FindIndex(msgs, validSnapshot.chatIndex)
      inRange == IF snapshotIndex >= 0 /\ snapshotIndex < endingIdx THEN snapshotIndex ELSE -1
      startingIdx == IF snapshotIndex > 0 /\ msgs[snapshotIndex + 1].id = rewindId
                     THEN -1 ELSE inRange
  IN [snapshotIndex |-> snapshotIndex,
      startingIdx |-> startingIdx,
      filteredMessages |-> Slice(msgs, startingIdx + 1, endingIdx),
      archived |-> IF startingIdx >= 0 THEN Slice(msgs, 0, startingIdx + 1) ELSE <<>>]

\* the load effect once getMessages and getSnapshot have resolved, up to
\* `await detectProjectCommands(files)` or, without a restore, to its end
Load ==
  LET plan == LoadPlan(storedMessages, storedSnapshot, rewindTo) IN
  /\ loadPc = "idle"
  /\ IF Len(storedMessages) > 0
     THEN /\ archivedMessages' = plan.archived
          /\ IF plan.startingIdx > 0
             THEN /\ loadPc' = "detect"
                  /\ UNCHANGED initialMessages
             ELSE /\ loadPc' = "ready"
                  /\ initialMessages' = plan.filteredMessages
     ELSE /\ archivedMessages' = <<>>
          /\ initialMessages' = <<>>
          /\ loadPc' = "ready"
  /\ step' = Label("load", NoEvent, loadPc' = "detect")
  /\ UNCHANGED <<storedMessages, storedSnapshot, rewindTo, restoreRuns, runtimeFs>>
  /\ UNCHANGED <<wbVars, bootVars, pvVars, sideVars>>

\* the load effect after detectProjectCommands has settled: the restore
\* messages, `restoreSnapshot(mixedId)`, setInitialMessages; or the catch
LoadResume(ok) ==
  LET plan == LoadPlan(storedMessages, storedSnapshot, rewindTo) IN
  /\ loadPc = "detect"
  /\ IF ok
     THEN /\ initialMessages' =
                RestoreMessages(storedMessages[plan.snapshotIndex + 1].id, storedSnapshot)
                  \o plan.filteredMessages
          /\ restoreRuns' = RestoreSnapshot(restoreRuns, "load", Undefined)
          /\ loadPc' = "ready"
     ELSE /\ loadPc' = "failed"
          /\ UNCHANGED <<initialMessages, restoreRuns>>
  /\ step' = Label("loadResume", NoEvent, ok)
  /\ UNCHANGED <<storedMessages, storedSnapshot, rewindTo, archivedMessages, runtimeFs>>
  /\ UNCHANGED <<wbVars, bootVars, pvVars, sideVars>>

(* ----------------------------- pushToGitHub ----------------------------- *)
\* `a || b` on strings and undefined: the first truthy operand, else the second
OrElse(a, b) == IF a # None /\ a # "" THEN a ELSE b
\* `!x` on a string or undefined
Falsy_never(x) == FALSE
Falsy(x) == x = None \/ x = ""

\* what the caller passes as ghToken / githubUsername and what the cookies hold
TokenArgs == {None, "", "tok"}
OwnerArgs == {None, "me"}
CookieTokens == {None, "ctok"}
CookieOwners == {None, "cme"}
\* repo.html_url
RepoUrl == "https://github.com/me/repo"

\* const maxAttempts = 3
MaxAttempts == 3
\* `attempt * 2000`, and the waits after a visibility change and a creation
BackoffUnit == 2000
VisibilityDelay == 3000
CreateDelay == 2000

\* the files a push makes blobs of: `dirent?.type === 'file' && dirent.content`
ValidBlobs(f) == {p \in Paths : f[p] # None /\ f[p] # ""}

\* `(visibilityJustChanged || attempt === 1) && attempt < maxAttempts`
RetryAllowed_always(visibilityJustChanged, attempt) == attempt < MaxAttempts
RetryAllowed(visibilityJustChanged, attempt) ==
  (visibilityJustChanged \/ attempt = 1) /\ attempt < MaxAttempts

\* the outer catch re-throws: the call's promise rejects with the error
PushRejected(pu, error) == [pu EXCEPT !.pc = "rejected", !.error = error]

\* lines 584-589 and pushFilesToRepo(attempt) up to its awaits: the File Table
\* must have entries; the blobs are created and the calls of the attempt made
\* (the awaited calls of one attempt are taken together: each of them failing
\* leads to the same catch)
BeginPush(pu, attempt) ==
  IF attempt = 1 /\ \A p \in Paths : files[p] = None
  THEN PushRejected(pu, "No files found to push")
  ELSE [pu EXCEPT !.pc = "attempt", !.attempt = attempt,
                  !.remoteCalls = @ + (IF ValidBlobs(files) = {} THEN 0 ELSE 1)]

\* pushToGitHub(repoName, commitMessage, githubUsername, ghToken, isPrivate) up
\* to `await octokit.repos.get(...)`
PushToGitHub(ghToken, githubUsername, cookieToken, cookieOwner, isPrivate) ==
  LET githubToken == OrElse(ghToken, cookieToken)
      owner == OrElse(githubUsername, cookieOwner)
      pu == [pc |-> "getRepo", token |-> githubToken, owner |-> owner,
             given |-> [ghToken |-> ghToken, githubUsername |-> githubUsername,
                        cookieToken |-> cookieToken, cookieOwner |-> cookieOwner],
             isPrivate |-> isPrivate, visibilityJustChanged |-> FALSE, attempt |-> 0,
             remoteCalls |-> 1, delays |-> <<>>, error |-> None, result |-> None]
  IN /\ push.pc = "idle"
     /\ push' = IF Falsy(githubToken) \/ Falsy(owner)
                THEN [pu EXCEPT !.pc = "rejected", !.remoteCalls = 0,
                                !.error = "GitHub token or username is not set"]
                ELSE pu
     /\ step' = Label("pushToGitHub", None, push'.pc = "rejected")
     /\ UNCHANGED <<wbVars, bootVars, pvVars, histVars, mutations, takes, alerts, served>>

\* octokit.repos.get settles: the repository (with its visibility), a 404, or
\* another error
RepoGetSettles(outcome) ==
  /\ push.pc = "getRepo"
  /\ push' = IF outcome = "404"
             THEN [push EXCEPT !.pc = "create", !.remoteCalls = @ + 1]
             ELSE IF outcome = "error" THEN PushRejected(push, "repos.get failed")
             ELSE IF (outcome = "private") # push.isPrivate
             THEN [push EXCEPT !.pc = "update", !.remoteCalls = @ + 1]
             ELSE BeginPush(push, 1)
  /\ step' = Label("reposGet", outcome, push'.pc = "rejected")
  /\ UNCHANGED <<wbVars, bootVars, pvVars, histVars, mutations, takes, alerts, served>>

\* octokit.repos.update settles: the visibility was changed and the call waits
\* 3000 ms, or the failure is logged and the push goes on
RepoUpdateSettles(ok) ==
  /\ push.pc = "update"
  /\ push' = IF ok THEN [push EXCEPT !.pc = "wait", !.visibilityJustChanged = TRUE,
                                     !.delays = Append(@, VisibilityDelay)]
             ELSE BeginPush(push, 1)
  /\ step' = Label("reposUpdate", None, ok)
  /\ UNCHANGED <<wbVars, bootVars, pvVars, histVars, mutations, takes, alerts, served>>

\* octokit.repos.createForAuthenticatedUser settles: the call waits 2000 ms, or
\* the failure leaves the catch block it was made in
RepoCreateSettles(ok) ==
  /\ push.pc = "create"
  /\ push' = IF ok THEN [push EXCEPT !.pc = "wait", !.delays = Append(@, CreateDelay)]
             ELSE PushRejected(push, "repos.create failed")
  /\ step' = Label("reposCreate", None, ok)
  /\ UNCHANGED <<wbVars, bootVars, pvVars, histVars, mutations, takes, alerts, served>>

\* a setTimeout the call awaits has run: the first attempt, or the next one
PushWakes ==
  /\ push.pc \in {"wait", "backoff"}
  /\ push' = BeginPush(push, push.attempt + 1)
  /\ step' = Label("pushWakes", None, push.pc = "backoff")
  /\ UNCHANGED <<wbVars, bootVars, pvVars, histVars, mutations, takes, alerts, served>>

\* the calls of an attempt settle: the repository url is returned, or the catch
\* of pushFilesToRepo retries after attempt * 2000 ms or re-throws
AttemptSettles(ok) ==
  /\ push.pc = "attempt"
  /\ ok => ValidBlobs(files) # {}
  /\ push' = IF ok THEN [push EXCEPT !.pc = "fulfilled", !.result = RepoUrl]
             ELSE IF RetryAllowed(push.visibilityJustChanged, push.attempt)
             THEN [push EXCEPT !.pc = "backoff",
                               !.delays = Append(@, push.attempt * BackoffUnit)]
             ELSE PushRejected(push, "push attempt failed")
  /\ step' = Label("attemptSettles", None, ok)
  /\ UNCHANGED <<wbVars, bootVars, pvVars, histVars, mutations, takes, alerts, served>>

(* ----------------------------- takeSnapshot ----------------------------- *)
\* the message ids a snapshot is taken at, the `_chatId` argument and the
\* value of the chatId atom (undefined: None)
ChatIndexes == {"m1", "m2"}
ChatIdArgs == {None, "c1"}
ChatIdAtoms == {None, "c2"}

\* a call of takeSnapshot: the snapshot it builds and where it stands
SnapshotCall(chatIdx, entries, id, returns) ==
  [id |-> id, snapshot |-> [chatIndex |-> chatIdx, files |-> entries],
   pc |-> IF returns THEN "fulfilled" ELSE "setSnapshot",
   failed |-> FALSE, toast |-> FALSE]

\* takeSnapshot(chatIdx, files, _chatId) up to `await setSnapshot(db, id, snapshot)`
TakeSnapshot(chatIdx, entries, _chatId, chatId, db) ==
  LET id == OrElse(_chatId, chatId)
      returns == Falsy(id) \/ ~db
  IN /\ takes' = Append(takes, SnapshotCall(chatIdx, entries, id, returns))
     /\ step' = Label("takeSnapshot", chatIdx, returns)
     /\ UNCHANGED <<wbVars, bootVars, pvVars, histVars, push, mutations, alerts, served>>

\* the catch block of takeSnapshot: console.error and toast.error, no throw
Caught(take) == [take EXCEPT !.pc = "fulfilled", !.failed = TRUE, !.toast = TRUE]

\* setSnapshot settles and takeSnapshot runs to its end
SetSnapshotSettles(k, ok) ==
  /\ k \in 1..Len(takes) /\ takes[k].pc = "setSnapshot"
  /\ takes' = [takes EXCEPT ![k] = IF ok THEN [@ EXCEPT !.pc = "fulfilled"] ELSE Caught(@)]
  /\ storedSnapshot' = IF ok THEN takes[k].snapshot ELSE storedSnapshot
  /\ step' = Label("setSnapshotSettles", takes[k].snapshot.chatIndex, ok)
  /\ UNCHANGED <<storedMessages, rewindTo, archivedMessages, initialMessages, loadPc,
                 restoreRuns, runtimeFs>>
  /\ UNCHANGED <<wbVars, bootVars, pvVars, push, mutations, alerts, served>>

(* -------------------------- storeMessageHistory -------------------------- *)
\* the id of the chat that is loaded (`chatId.set(storedMessages.id)`) and the
\* message the user adds to the conversation
LoadedChatId == "c2"
NewMessage == Message("m4", "assistant", "r2")

\* messages.filter((m) => !m.annotations?.includes('no-store'))
Stored(messages) ==
  SelectSeq(messages, LAMBDA m : \A k \in 1..Len(m.annotations) : m.annotations[k] # "no-store")

\* what storeMessageHistory(messages) comes to: it returns at once for an empty
\* list, throws at `lastMessage.role` when the filter leaves no message, and
\* otherwise takes a snapshot and awaits setMessages
StoreOutcome(messages, ok) ==
  IF Len(messages) = 0 THEN "returned"
  ELSE IF Len(Stored(messages)) = 0 THEN "threw"
  ELSE IF ok THEN "stored" ELSE "rejected"

\* storeMessageHistory(messages) of a loaded chat, with the database present
\* and the chat's urlId set, through to the settling of setMessages
StoreMessageHistory(messages, ok) ==
  LET kept == Stored(messages)
      outcome == StoreOutcome(messages, ok)
      reaches == outcome \in {"stored", "rejected"}
  IN /\ loadPc \in {"ready", "failed"}
     /\ takes' = IF reaches
                 THEN Append(takes, SnapshotCall(kept[Len(kept)].id, <<>>, LoadedChatId, FALSE))
                 ELSE takes
     /\ storedMessages' = IF outcome = "stored" THEN archivedMessages \o kept
                          ELSE storedMessages
     /\ step' = [op |-> "storeMessageHistory", m |-> NoEvent, flag |-> outcome = "stored",
                 outcome |-> outcome, unchanged |-> messages = initialMessages]
     /\ UNCHANGED <<storedSnapshot, rewindTo, archivedMessages, initialMessages, loadPc,
                    restoreRuns, runtimeFs>>
     /\ UNCHANGED <<wbVars, bootVars, pvVars, push, mutations, alerts, served>>

(* --------------------------- api.export-api-keys --------------------------- *)
\* the providers of LLMManager.getAllProviders() and provider.config.apiTokenKey
\* (undefined: None)
Providers == {"OpenAI", "Ollama"}
ApiTokenKey(provider) == IF provider = "OpenAI" THEN "OPENAI_API_KEY" ELSE None

\* what getApiKeysFromCookie returns: per provider no entry (None), an empty
\* string or a key; and what the three environments hold under the provider's
\* variable name
CookieValues == {None, "", "k1", "k2"}
ContextEnvValues == {None, "", "k3", "k4"}
ProcessEnvValues == {None, "k5"}
ManagerEnvValues == {None, "k6"}
Requests == [cookie : [Providers -> CookieValues], contextEnv : ContextEnvValues,
             processEnv : ProcessEnvValues, managerEnv : ManagerEnvValues]

\* context.cloudflare.env[name] || process.env[name] || llmManager.env[name]
EnvValue(req) == OrElse(req.contextEnv, OrElse(req.processEnv, req.managerEnv))

\* `apiKeys` after the loop over the providers: the cookie's entries, and the
\* environment's value for a provider that has a variable name and no truthy
\* entry (None: no entry)
ApiKeys(req) ==
  [p \in Providers |->
     IF ApiTokenKey(p) = None THEN req.cookie[p]
     ELSE IF ~Falsy(req.cookie[p]) THEN req.cookie[p]
     ELSE IF ~Falsy(EnvValue(req)) THEN EnvValue(req)
     ELSE req.cookie[p]]

\* `redacted`: for each name of Object.keys(apiKeys) the literal 'set'
Redacted_asIs(apiKeys) ==
  [p \in {q \in DOMAIN apiKeys : apiKeys[q] # None} |-> apiKeys[p]]
Redacted(apiKeys) ==
  [p \in {q \in DOMAIN apiKeys : apiKeys[q] # None} |-> "set"]

\* the loader serves a request: Response.json(redacted)
Loader(req) ==
  /\ served' = Append(served, [request |-> req, response |-> Redacted(ApiKeys(req))])
  /\ step' = Label("loader", None, FALSE)
  /\ UNCHANGED <<wbVars, bootVars, pvVars, histVars, push, mutations, takes, alerts>>

\* no push, file mutation or takeSnapshot call has been made
InitSideIdle ==
  /\ push = [pc |-> "idle"]
  /\ mutations = <<>>
  /\ takes = <<>>
  /\ alerts = InitAlerts
  /\ served = <<>>

\* no chat is being loaded
InitHistoryIdle ==
  /\ storedMessages = <<>> /\ storedSnapshot = Undefined /\ rewindTo = None
  /\ archivedMessages = <<>> /\ initialMessages = <<>>
  /\ loadPc = "idle"
  /\ restoreRuns = <<>>
  /\ runtimeFs = {}

(* ------------------------------ behaviours ----------------------------- *)
InitBoot ==
  /\ ssr = FALSE /\ hot = TRUE
  /\ hotData = [webcontainer |-> 0, previewListenerAttached |-> FALSE]
  /\ promises = <<>> /\ returned = <<>>
  /\ webcontainerContext = [loaded |-> FALSE, booting |-> FALSE, lastError |-> None]
  /\ bootCount = 0 /\ listeners = 0 /\ generation = 0

\* any build: server or browser, with or without import.meta.hot
InitBootAny ==
  /\ ssr \in BOOLEAN /\ hot \in BOOLEAN
  /\ hotData = [webcontainer |-> 0, previewListenerAttached |-> FALSE]
  /\ promises = <<>> /\ returned = <<>>
  /\ webcontainerContext = [loaded |-> FALSE, booting |-> FALSE, lastError |-> None]
  /\ bootCount = 0 /\ listeners = 0 /\ generation = 0

InitWorkbench ==
  /\ artifacts = [x \in {} |-> None]
  /\ artifactIdList = <<>>
  /\ runnersMade = 0
  /\ runner = [m \in MessageIds |-> [actions |-> {}, executed |-> {}]]
  /\ runnerLog = [m \in MessageIds |-> <<>>]
  /\ pendingRuns = <<>> /\ pendingSaves = <<>> /\ saveAllRuns = <<>>
  /\ ops = <<>> /\ started = <<>> /\ wcWaiters = <<>>
  /\ files = [p \in Paths |-> None]
  /\ documents = [p \in Paths |-> None]
  /\ unsavedFiles = {}
  /\ selectedFile = None
  /\ currentView = "code"
  /\ now = SampleInterval /\ lastTime = 0 /\ lastStreamStart = {}

Init ==
  /\ InitWorkbench /\ InitBoot /\ InitPreview /\ InitHistoryIdle /\ InitSideIdle
  /\ step = Label("init", None, FALSE)

UserSaves == Cardinality({k \in 1..Len(pendingSaves) : pendingSaves[k].op = 0})

\* queue-only behaviours: any addArtifact, addAction and non-streaming runAction
\* calls, and the user's edits and saves
NextQueue ==
  \/ \E m \in MessageIds, d \in ArtifactData : AddArtifact(m, d)
  \/ \E m \in ActionMessageIds, a \in ActionIds : Len(ops) < MaxQueued /\ AddAction(m, a)
  \/ \E x \in RunInputs : Len(ops) < MaxQueued /\ RunActionCall(x[1], x[2], x[3], FALSE)
  \/ \E i \in 1..Len(ops) : QueueSkip(i)
  \/ \E i \in 1..Len(ops) : StartAddAction(i)
  \/ \E i \in 1..Len(ops) : StartRunAction(i)
  \/ \E i \in 1..Len(ops) : ResumeWc(i)
  \/ \E i \in 1..Len(ops) : RunnerComplete(i)
  \/ \E k \in 1..Len(pendingSaves), ok \in BOOLEAN : SaveComplete(k, ok)
  \/ SetDocuments
  \/ \E c \in Contents : SetCurrentDocumentContent(c)
  \/ \E p \in Paths : UserSaves < MaxUserSaves /\ SaveFile(p)
  \/ ResetCurrentDocument

Spec == Init /\ [][NextQueue]_vars

\* streaming behaviours: one file action streamed (sampled runAction calls as its
\* content arrives) and run through the queue, while time passes
NextStream ==
  \/ \E m \in ActionMessageIds, d \in ArtifactData : AddArtifact(m, d)
  \/ \E m \in ActionMessageIds, a \in FileActionIds : Len(ops) < MaxOps /\ AddAction(m, a)
  \/ \E m \in ActionMessageIds, a \in FileActionIds, c \in Contents, isStreaming \in BOOLEAN :
        Len(ops) < MaxOps /\ RunActionCall(m, a, c, isStreaming)
  \/ \E i \in 1..Len(ops) : QueueSkip(i)
  \/ \E i \in 1..Len(ops) : StartAddAction(i)
  \/ \E i \in 1..Len(ops) : StartRunAction(i)
  \/ \E i \in 1..Len(ops) : ResumeWc(i)
  \/ \E i \in 1..Len(ops) : RunnerComplete(i)
  \/ \E k \in 1..Len(pendingSaves), ok \in BOOLEAN : SaveComplete(k, ok)
  \/ SetDocuments
  \/ Tick

SpecStream == Init /\ [][NextStream]_vars

\* the runtime handle alone: getWebContainer calls, boots and hot reloads
InitBootSpec ==
  /\ InitWorkbench /\ InitBootAny /\ InitPreview /\ InitHistoryIdle /\ InitSideIdle
  /\ step = Label("init", None, FALSE)

NextBoot ==
  \/ Len(returned) < MaxCalls /\ GetWebContainer
  \/ \E k \in 1..Len(promises) : BootInvoke(k)
  \/ \E k \in 1..Len(promises) : BootResolve(k)
  \/ \E k \in 1..Len(promises) : BootReject(k)
  \/ HotReload

SpecBoot == InitBootSpec /\ [][NextBoot]_vars

\* the editor alone: a project of two files is open, each with its document;
\* the user selects, edits, resets and saves
InitEdit ==
  /\ InitBoot /\ InitPreview /\ InitHistoryIdle /\ InitSideIdle
  /\ artifacts = [x \in {} |-> None] /\ artifactIdList = <<>> /\ runnersMade = 0
  /\ runner = [m \in MessageIds |-> [actions |-> {}, executed |-> {}]]
  /\ runnerLog = [m \in MessageIds |-> <<>>]
  /\ pendingRuns = <<>> /\ pendingSaves = <<>> /\ saveAllRuns = <<>>
  /\ ops = <<>> /\ started = <<>> /\ wcWaiters = <<>>
  /\ files \in [Paths -> Contents]
  /\ documents = files
  /\ unsavedFiles = {}
  /\ selectedFile \in Paths
  /\ currentView = "code"
  /\ now = SampleInterval /\ lastTime = 0 /\ lastStreamStart = {}
  /\ step = Label("init", None, FALSE)

NextEdit ==
  \/ \E p \in Paths : SetSelectedFile(p)
  \/ \E c \in Contents : SetCurrentDocumentContent(c)
  \/ ResetCurrentDocument
  \/ \E p \in Paths : UserSaves < MaxUserSaves /\ SaveFile(p)
  \/ \E order \in Orders(unsavedFiles) : Len(saveAllRuns) < MaxSaveAlls /\ SaveAllFiles(order)
  \/ \E k \in 1..Len(pendingSaves), ok \in BOOLEAN : SaveComplete(k, ok)

SpecEdit == InitEdit /\ [][NextEdit]_vars

\* the preview registry of one tab: port events of the runtime, messages of
\* other tabs, refresh timeouts and animation frames, while time passes
InitPreviewSpec ==
  /\ InitWorkbench /\ InitBoot /\ InitPreview /\ InitHistoryIdle /\ InitSideIdle
  /\ step = Label("init", NoEvent, FALSE)

NextPreview ==
  \/ \E port \in Ports, type \in PortEventTypes, url \in Urls :
        portEvents < MaxPortEvents /\ PortEvent(port, type, url)
  \/ \E msg \in ChannelMsgs : received + Len(inbox) < MaxMsgs /\ OtherTabPosts(msg)
  \/ OnPreviewMessage
  \/ \E t \in timers : TimeoutFires(t)
  \/ AnimationFrame
  \/ PreviewTick

SpecPreview == InitPreviewSpec /\ [][NextPreview]_vars

\* the storage synchronisation of one tab whose runtime has opened two previews
InitTabs ==
  /\ InitWorkbench /\ InitBoot /\ InitHistoryIdle /\ InitSideIdle
  /\ heap = <<[port |-> 3000, ready |-> TRUE, baseUrl |-> Url("pv1")],
              [port |-> 3001, ready |-> TRUE, baseUrl |-> Url("pv2")]>>
  /\ availablePreviews = [p \in Ports |-> IF p = 3000 THEN 1 ELSE 2]
  /\ previews = <<1, 2>>
  /\ lastUpdate = [i \in PreviewIds |-> now]
  /\ refreshTimeouts = [i \in PreviewIds |-> 0]
  /\ timers = {} /\ rafs = <<>>
  /\ inbox = <<>>
  /\ posted = <<BroadcastMsg(GetPreviewId(Url("pv1"))), BroadcastMsg(GetPreviewId(Url("pv2")))>>
  /\ portEvents = 2 /\ received = 0
  /\ tabId = None
  /\ storageInbox = <<>> /\ storageApplied = <<>> /\ storageSeen = 0
  /\ step = Label("init", NoEvent, FALSE)

NextTabs ==
  \/ \E msg \in StorageMsgs :
        storageSeen + Len(storageInbox) < MaxStorageMsgs /\ OtherTabSyncs(msg)
  \/ \E fresh \in TabIds : OnStorageMessage(fresh)
  \/ \E fresh \in TabIds : BroadcastStorageSync(fresh)
  \/ \E t \in timers : TimeoutFires(t)
  \/ AnimationFrame
  \/ PreviewTick

SpecTabs == InitTabs /\ [][NextTabs]_vars

\* restoreSnapshot called with a snapshot, against the runtime's file system
InitRestore ==
  /\ InitWorkbench /\ InitBoot /\ InitPreview /\ InitSideIdle
  /\ storedMessages = <<>> /\ rewindTo = None
  /\ storedSnapshot \in [chatIndex : {"m1"}, files : FileMaps]
  /\ archivedMessages = <<>> /\ initialMessages = <<>>
  /\ loadPc = "idle"
  /\ restoreRuns = <<>>
  /\ runtimeFs = {}
  /\ step = Label("init", NoEvent, FALSE)

NextRestore ==
  \/ Len(restoreRuns) < MaxRestores /\ RestoreSnapshotCall
  \/ \E r \in 1..Len(restoreRuns), ok \in BOOLEAN : RestoreAdvance(r, ok)

SpecRestore == InitRestore /\ [][NextRestore]_vars

\* a chat is loaded: its transcript, its snapshot and the rewind parameter are
\* what the database and the url hold
InitHistory ==
  /\ InitWorkbench /\ InitBoot /\ InitPreview /\ InitSideIdle
  /\ storedMessages \in Transcripts
  /\ storedSnapshot \in StoredSnapshots
  /\ rewindTo \in RewindIds
  /\ archivedMessages = <<>> /\ initialMessages = <<>>
  /\ loadPc = "idle"
  /\ restoreRuns = <<>>
  /\ runtimeFs = {}
  /\ step = Label("init", NoEvent, FALSE)

NextHistory ==
  \/ Load
  \/ \E ok \in BOOLEAN : LoadResume(ok)
  \/ \E r \in 1..Len(restoreRuns), ok \in BOOLEAN : RestoreAdvance(r, ok)

SpecHistory == InitHistory /\ [][NextHistory]_vars

\* a chat is loaded and the conversation is stored as it goes on
NextStore ==
  \/ Load
  \/ \E ok \in BOOLEAN : LoadResume(ok)
  \/ \E r \in 1..Len(restoreRuns), ok \in BOOLEAN : RestoreAdvance(r, ok)
  \/ \E grown, ok \in BOOLEAN :
        /\ Len(takes) < MaxStores
        /\ StoreMessageHistory(IF grown THEN Append(initialMessages, NewMessage)
                                         ELSE initialMessages, ok)

SpecStore == InitHistory /\ [][NextStore]_vars

\* a push of the project: the File Table holds what the project has, the
\* arguments and the cookies are what the caller and the browser hold
InitPush ==
  /\ InitBoot /\ InitPreview /\ InitHistoryIdle /\ InitSideIdle
  /\ artifacts = [x \in {} |-> None] /\ artifactIdList = <<>> /\ runnersMade = 0
  /\ runner = [m \in MessageIds |-> [actions |-> {}, executed |-> {}]]
  /\ runnerLog = [m \in MessageIds |-> <<>>]
  /\ pendingRuns = <<>> /\ pendingSaves = <<>> /\ saveAllRuns = <<>>
  /\ ops = <<>> /\ started = <<>> /\ wcWaiters = <<>>
  /\ files \in [Paths -> Contents \cup {None}]
  /\ documents = files
  /\ unsavedFiles = {}
  /\ selectedFile = None
  /\ currentView = "code"
  /\ now = SampleInterval /\ lastTime = 0 /\ lastStreamStart = {}
  /\ step = Label("init", None, FALSE)

NextPush ==
  \/ \E ghToken \in TokenArgs, githubUsername \in OwnerArgs, cookieToken \in CookieTokens,
        cookieOwner \in CookieOwners, isPrivate \in BOOLEAN :
        PushToGitHub(ghToken, githubUsername, cookieToken, cookieOwner, isPrivate)
  \/ \E outcome \in {"public", "private", "404", "error"} : RepoGetSettles(outcome)
  \/ \E ok \in BOOLEAN : RepoUpdateSettles(ok)
  \/ \E ok \in BOOLEAN : RepoCreateSettles(ok)
  \/ PushWakes
  \/ \E ok \in BOOLEAN : AttemptSettles(ok)

SpecPush == InitPush /\ [][NextPush]_vars

\* a project with one file is open and the artifact of message m1 has its
\* actions registered; the user creates and deletes files and folders, edits,
\* resets and aborts while the actions run through the queue
InitMutate ==
  /\ InitBoot /\ InitPreview /\ InitHistoryIdle /\ InitSideIdle
  /\ artifacts = [x \in {"m1"} |-> [id |-> "i1", title |-> "t1", closed |-> FALSE,
                                    type |-> "bundled", runner |-> 1]]
  /\ artifactIdList = <<"m1">> /\ runnersMade = 1
  /\ runner = [m \in MessageIds |-> [actions |-> IF m = "m1" THEN ActionIds ELSE {},
                                     executed |-> {}]]
  /\ runnerLog = [m \in MessageIds |-> IF m = "m1" THEN <<"a1", "a2">> ELSE <<>>]
  /\ pendingRuns = <<>> /\ pendingSaves = <<>> /\ saveAllRuns = <<>>
  /\ ops = <<>> /\ started = <<>> /\ wcWaiters = <<>>
  /\ files \in [Paths -> Contents]
  /\ documents = files
  /\ unsavedFiles = {}
  /\ selectedFile \in Paths \cup {None}
  /\ currentView = "code"
  /\ now = SampleInterval /\ lastTime = 0 /\ lastStreamStart = {}
  /\ step = Label("init", None, FALSE)

NextMutate ==
  \/ \E m \in ActionMessageIds, a \in FileActionIds, c \in Contents :
        Len(ops) < MaxMutOps /\ RunActionCall(m, a, c, FALSE)
  \/ \E i \in 1..Len(ops) : QueueSkip(i)
  \/ \E i \in 1..Len(ops) : StartRunAction(i)
  \/ \E i \in 1..Len(ops) : ResumeWc(i)
  \/ \E i \in 1..Len(ops) : RunnerComplete(i)
  \/ \E k \in 1..Len(pendingSaves), ok \in BOOLEAN : SaveComplete(k, ok)
  \/ SetDocuments
  \/ \E p \in Paths : SetSelectedFile(p)
  \/ \E c \in Contents : SetCurrentDocumentContent(c)
  \/ ResetCurrentDocument
  \/ \E p \in Paths, c \in Contents : Len(mutations) < MaxMutations /\ CreateFile(p, c)
  \/ \E f \in Folders : Len(mutations) < MaxMutations /\ CreateFolder(f)
  \/ \E p \in Paths : Len(mutations) < MaxMutations /\ DeleteFile(p)
  \/ \E f \in Folders : Len(mutations) < MaxMutations /\ DeleteFolder(f)
  \/ \E k \in 1..Len(mutations), outcome \in {"true", "false", "throw"} :
        MutationSettles(k, outcome)
  \/ AbortAllActions

SpecMutate == InitMutate /\ [][NextMutate]_vars

\* snapshots of the project taken as the chat goes on
NextSnapshot ==
  \/ \E chatIdx \in ChatIndexes, entries \in FileMaps, _chatId \in ChatIdArgs,
        chatId \in ChatIdAtoms, db \in BOOLEAN :
        Len(takes) < MaxTakes /\ TakeSnapshot(chatIdx, entries, _chatId, chatId, db)
  \/ \E k \in 1..Len(takes), ok \in BOOLEAN : SetSnapshotSettles(k, ok)

SpecSnapshot == Init /\ [][NextSnapshot]_vars

\* the artifact registry alone: the parser registers and updates artifacts
NextArtifacts ==
  \/ \E m \in MessageIds, d \in ArtifactData : AddArtifact(m, d)
  \/ \E m \in MessageIds, state \in PartialStates : UpdateArtifact(m, state)

SpecArtifacts == Init /\ [][NextArtifacts]_vars

\* the artifact registry in a development build: the workbench module can be
\* hot-reloaded between the parser's calls
NextArtifactsHot ==
  \/ \E m \in MessageIds, d \in ArtifactData : AddArtifact(m, d)
  \/ \E m \in MessageIds, state \in PartialStates : UpdateArtifact(m, state)
  \/ ReloadStore

SpecArtifactsHot == Init /\ [][NextArtifactsHot]_vars

\* alerts of the runners in a development build: artifacts are registered, the
\* chat sets the reloaded messages, runners raise alerts, the module is reloaded
NextAlerts ==
  \/ \E m \in MessageIds, d \in ArtifactData : AddArtifact(m, d)
  \/ \E messages \in SUBSET MessageIds : SetReloadedMessages(messages)
  \/ \E m \in MessageIds, kind \in AlertKinds, alert \in AlertValues : RaiseAlert(m, kind, alert)
  \/ ReloadStore

SpecAlerts == Init /\ [][NextAlerts]_vars

\* requests to /api/export-api-keys
NextExport ==
  \E req \in Requests : Len(served) < MaxRequests /\ Loader(req)

SpecExport == Init /\ [][NextExport]_vars

(* ------------------------------- claims -------------------------------- *)
Range(seq) == {seq[k] : k \in 1..Len(seq)}
Running(i) == ops[i].pc \in InFlight
FilePathOf(i) == FullPath(ActionFilePath(ops[i].a))

\* C1: at most one callback handed to addToExecutionQueue is in flight at any time,
\* and a callback that has started finds every callback enqueued before it finished.
C1_OneInFlight ==
  /\ Cardinality({i \in QueueOps : Running(i)}) <= 1
  /\ \A i \in QueueOps : ops[i].pc \notin {"queued", "skipped"} =>
        \A j \in QueueOps : j < i => ops[j].pc \in Terminal

\* a callback is suspended at its file write while a later one waits in the queue
C1_Witness ==
  \E i, j \in QueueOps :
     i < j /\ ops[i].pc = "runner1" /\ ops[j].pc = "queued"

\* the action ids of the addAction operations of message m that have run, in enqueue order
AddsDone(m) ==
  LET idx == SelectSeq([k \in 1..Len(ops) |-> k],
                       LAMBDA k : ops[k].kind = "add" /\ ops[k].m = m /\ ops[k].pc = "done")
  IN [k \in 1..Len(idx) |-> ops[idx[k]].a]

\* C2: queued operations start in the order of their enqueue calls (none starts
\* before one enqueued earlier), and each artifact's runner receives its actions
\* in the order they were added.
C2_StartOrder ==
  /\ \A x, y \in 1..Len(started) : x < y => started[x] < started[y]
  /\ \A j \in Range(started) : \A i \in QueueOps : i < j => i \in Range(started)
  /\ \A m \in MessageIds : runnerLog[m] = AddsDone(m)

\* three operations have started, and the runner received two different actions
C2_Witness ==
  /\ Len(started) >= 3
  /\ \E m \in MessageIds : Len(runnerLog[m]) >= 2 /\ runnerLog[m][1] # runnerLog[m][2]

\* C3: an operation enqueued after a failed one is still started and run: the
\* failure never makes the queue pass over a later entry.
C3_FailureDoesNotStopQueue ==
  \A i, j \in QueueOps : (i < j /\ ops[i].pc = "failed") => ops[j].pc # "skipped"

\* the streaming executions of the action of run i, all started before i was enqueued
StreamedBefore(i) ==
  {j \in 1..Len(ops) : ops[j].streaming /\ ops[j].m = ops[i].m /\ ops[j].a = ops[i].a}

\* C4: once the non-streaming run of a file action has completed and every
\* streaming execution of that action, all started before it, has finished, the
\* document of the action's path and the File Table both hold the content of the
\* non-streaming call.
C4_FinalContentIsTerminal ==
  \A i \in 1..Len(ops) :
     (/\ ops[i].kind = "run" /\ ~ops[i].streaming /\ ActionType(ops[i].a) = "file"
      /\ ops[i].pc = "done"
      /\ \A j \in StreamedBefore(i) : j < i /\ ops[j].pc \in Terminal
      /\ documents[FilePathOf(i)] # None)
     => /\ documents[FilePathOf(i)] = ops[i].content
        /\ files[FilePathOf(i)] = ops[i].content

\* C5: _runAction for an action that is already executed, or that the artifact's
\* runner does not know, returns at once: the runner is not invoked and the
\* selected file, the view, the documents, the unsaved set and the File Table
\* stay as they were.
C5_ReplayIsNoOp ==
  [][\A i \in 1..Len(ops) :
        (/\ ops[i].kind = "run" /\ ops[i].pc = "queued"
         /\ ops'[i].pc \notin {"queued", "skipped"}
         /\ ops[i].m \in DOMAIN artifacts
         /\ \/ ops[i].a \notin runner[ops[i].m].actions
            \/ ops[i].a \in runner[ops[i].m].executed)
        => /\ ops'[i].pc = "noop"
           /\ UNCHANGED <<selectedFile, currentView, documents, unsavedFiles, files,
                          runner, pendingRuns, pendingSaves, wcWaiters>>]_vars

\* a file action ran, its document has an unsaved edit, and its replay returned early
C5_Witness ==
  \E i, j \in 1..Len(ops) :
     /\ i < j /\ ops[i].kind = "run" /\ ops[j].kind = "run"
     /\ ops[i].m = ops[j].m /\ ops[i].a = ops[j].a /\ ActionType(ops[i].a) = "file"
     /\ ops[i].pc = "done" /\ ops[j].pc = "noop"
     /\ ops[i].a \in runner[ops[i].m].executed
     /\ FilePathOf(i) \in unsavedFiles

\* C6: addArtifact for a message id that already has an artifact leaves the
\* registry and the id list as they were (no new runner, same id, title, type,
\* closed), with exactly one entry for that message id.
C6_ReAddKeepsArtifact ==
  [][(step'.op = "addArtifact" /\ step'.m \in DOMAIN artifacts)
        => /\ artifacts' = artifacts
           /\ artifactIdList' = artifactIdList
           /\ runnersMade' = runnersMade
           /\ Cardinality({k \in 1..Len(artifactIdList') :
                             artifactIdList'[k] = step'.m}) = 1]_vars

\* addArtifact was called for a registered message id whose runner holds an action
C6_Witness ==
  /\ step.op = "addArtifact" /\ step.flag
  /\ step.m \in DOMAIN artifacts
  /\ runner[step.m].actions # {}

\* C7: a streaming _runAction starts only when a whole sample interval has passed
\* since the previous streaming start, and a runAction call that starts nothing
\* leaves the store as it was: the call is dropped, nothing is kept for later.
C7_SamplerThrottle ==
  [][/\ (Len(ops') = Len(ops) + 1 /\ ops'[Len(ops')].streaming)
          => \A t \in lastStreamStart : now - t >= SampleInterval
     /\ (step'.op = "runAction" /\ Len(ops') = Len(ops)) => UNCHANGED wbVars]_vars

\* a streaming call was just dropped inside the window of the second streaming execution
C7_Witness ==
  /\ step.op = "runAction" /\ step.flag
  /\ \E t \in lastStreamStart : now - t < SampleInterval
  /\ Cardinality({j \in 1..Len(ops) : ops[j].streaming}) >= 2

\* C8: in a browser context WebContainer.boot is invoked at most once and every
\* getWebContainer call returns the same promise.
C8_BootsOnce ==
  ~ssr => /\ bootCount <= 1
          /\ \A x, y \in 1..Len(returned) : returned[x] = returned[y]

\* C9: in the server-side rendering context every getWebContainer call returns
\* a rejected promise, nothing is pending, WebContainer.boot is never invoked
\* and webcontainerContext stays as constructed.
C9_SSRRejects ==
  ssr => /\ \A x \in 1..Len(returned) : promises[returned[x]] = "rejected"
         /\ \A k \in 1..Len(promises) : promises[k] = "rejected"
         /\ bootCount = 0
         /\ webcontainerContext = [loaded |-> FALSE, booting |-> FALSE, lastError |-> None]

\* getWebContainer was called twice on the server
C9_Witness ==
  /\ ssr /\ Len(returned) >= 2
  /\ step.op = "getWebContainer" /\ step.flag

\* nothing is in flight and no operation failed
Quiescent ==
  /\ pendingRuns = <<>> /\ pendingSaves = <<>> /\ wcWaiters = <<>>
  /\ \A i \in 1..Len(ops) : ops[i].pc \in {"done", "noop"}

\* C10: a path is in unsavedFiles exactly when a document exists for it whose
\* value differs from the File Table's content (stated for the states in which
\* every operation has run to its end).
C10_UnsavedIffDiffers ==
  Quiescent =>
    \A p \in Paths : p \in unsavedFiles <=> (documents[p] # None /\ documents[p] # files[p])

\* the save in flight that a saveComplete step has settled
Settled(k) == /\ k \in 1..Len(pendingSaves)
              /\ pendingSaves[k].path = step'.m
              /\ SubSeq(pendingSaves', 1, Len(pendingSaves) - 1) = RemoveAt(pendingSaves, k)

\* C11: saveFile(p) for a path with a document hands the document's value to the
\* File Table and, when the write has succeeded, the File Table holds that
\* value for p, p is not in unsavedFiles and every other path is in
\* unsavedFiles exactly if it was before; saveFile(p) for a path without a
\* document changes nothing.
C11_SaveFile ==
  [][/\ (step'.op = "saveFile" /\ documents[step'.m] = None) => UNCHANGED wbVars
     /\ (step'.op = "saveFile" /\ documents[step'.m] # None)
          => /\ pendingSaves' = Append(pendingSaves, [path |-> step'.m,
                                        value |-> documents[step'.m], op |-> 0])
             /\ UNCHANGED <<files, documents, unsavedFiles>>
     /\ (step'.op = "saveComplete" /\ step'.flag)
          => /\ \E k \in 1..Len(pendingSaves) :
                   Settled(k) /\ files'[step'.m] = pendingSaves[k].value
             /\ step'.m \notin unsavedFiles'
             /\ \A q \in Paths \ {step'.m} :
                   /\ q \in unsavedFiles' <=> q \in unsavedFiles
                   /\ files'[q] = files[q]]_vars

\* a save of an edited file has succeeded while the other file is still unsaved
C11_Witness ==
  /\ step.op = "saveComplete" /\ step.flag
  /\ files[step.m] = documents[step.m]
  /\ \E q \in Paths \ {step.m} : q \in unsavedFiles /\ documents[q] # files[q]

\* the entries of the published list for a port, and the pending timeouts of a preview id
ListEntries(h, list, port) == {k \in 1..Len(list) : h[list[k]].port = port}
PendingFor(tm, previewId) == {t \in tm : t.pid = previewId}

\* C12: a file-change message of another tab is applied (its timestamp recorded,
\* a refresh scheduled) exactly when its timestamp is strictly greater than the
\* one recorded for its preview id; any other message changes neither the
\* recorded timestamps nor the timeouts, and no recorded timestamp decreases
\* when a message is received.
C12_NewerOnly ==
  [][step'.op = "onPreviewMessage" =>
       LET msg == Head(inbox)
           id == msg.previewId
       IN /\ \A i \in PreviewIds : lastUpdate'[i] >= lastUpdate[i]
          /\ IF msg.type = "file-change" /\ msg.timestamp > lastUpdate[id]
             THEN /\ lastUpdate' = [lastUpdate EXCEPT ![id] = msg.timestamp]
                  /\ \E t \in timers' : /\ t.pid = id /\ t.due = now + RefreshDelay
                                        /\ refreshTimeouts'[id] = t.tid
             ELSE UNCHANGED <<lastUpdate, refreshTimeouts, timers>>]_vars

\* a file-change message carrying exactly the recorded timestamp has been ignored
\* while the refresh of the message that recorded it is still pending
C12_Witness ==
  /\ step.op = "onPreviewMessage" /\ ~step.flag
  /\ step.m.type = "file-change"
  /\ step.m.timestamp = lastUpdate[step.m.previewId]
  /\ posted = <<>>
  /\ PendingFor(timers, step.m.previewId) # {}

\* C13: after a port event of type close for port p neither the port map nor
\* the published list has an entry for p, whatever happened before.
C13_CloseRemoves ==
  [][(step'.op = "port" /\ ~step'.flag) =>
        /\ availablePreviews'[step'.m.port] = 0
        /\ ListEntries(heap', previews', step'.m.port) = {}]_vars

\* C14: after a port event of type open for port p with url u the published list
\* holds exactly one PreviewInfo for p, the one of the port map, with ready true
\* and baseUrl u, and a file-change broadcast for u's preview id has been posted;
\* the list never holds two entries for one port.
C14_OpenUpserts ==
  [][/\ (step'.op = "port" /\ step'.flag) =>
          LET p == step'.m.port
              u == step'.m.url
          IN /\ availablePreviews'[p] # 0
             /\ \E k \in 1..Len(previews') :
                   /\ ListEntries(heap', previews', p) = {k}
                   /\ previews'[k] = availablePreviews'[p]
             /\ heap'[availablePreviews'[p]] = [port |-> p, ready |-> TRUE, baseUrl |-> u]
             /\ GetPreviewId(u) # None =>
                   posted' = Append(posted, [type |-> "file-change",
                                             previewId |-> GetPreviewId(u), timestamp |-> now])
     /\ \A p \in Ports : Cardinality(ListEntries(heap', previews', p)) <= 1]_vars

\* C15: each preview id has at most one pending refresh timeout, the one
\* #refreshTimeouts names; a refresh request leaves exactly one, due 300 ms
\* later, standing for all the requests it replaced; a timeout runs no earlier
\* than 300 ms after the last request, sets ready to false and queues the one
\* animation frame that sets it back, and leaves nothing pending for its id.
C15_OneTimeout ==
  [][/\ \A i \in PreviewIds :
          /\ Cardinality(PendingFor(timers', i)) <= 1
          /\ \A t \in PendingFor(timers', i) : refreshTimeouts'[i] = t.tid
          /\ PendingFor(timers', i) = {} => refreshTimeouts'[i] = 0
     /\ (step'.op = "onPreviewMessage" /\ step'.flag) =>
          LET i == step'.m.previewId
              before == PendingFor(timers, i)
          IN \E t \in timers' :
                /\ PendingFor(timers', i) = {t}
                /\ t.due = now + RefreshDelay
                /\ t.calls = 1 + (IF before = {} THEN 0 ELSE (CHOOSE b \in before : TRUE).calls)
     /\ step'.op = "refreshTimeout" =>
          LET t == step'.m IN
          /\ t \in timers /\ now >= t.due
          /\ PendingFor(timers', t.pid) = {}
          /\ step'.flag =>
                /\ Len(rafs') = Len(rafs) + 1
                /\ heap'[rafs'[Len(rafs')].preview].ready = FALSE
                /\ GetPreviewId(heap[rafs'[Len(rafs')].preview].baseUrl) = t.pid
     /\ step'.op = "animationFrame" =>
          /\ rafs' = Tail(rafs)
          /\ heap'[Head(rafs).preview].ready = TRUE]_vars

\* two refresh requests made within the delay have been answered by one timeout,
\* which found its preview and set ready to false
C15_Witness ==
  /\ step.op = "refreshTimeout" /\ step.flag
  /\ step.m.calls = 2
  /\ timers = {} /\ Len(rafs) = 1
  /\ ~heap[rafs[1].preview].ready

\* C16: a storage-sync message is applied (the storage copied, the previews
\* refreshed) exactly when it carries a storage and its source is not this
\* tab's id; a message whose source is this tab's id changes nothing; and the
\* tab id, once generated, is the id of every later call.
C16_OwnMessagesIgnored ==
  [][/\ tabId # None => tabId' = tabId
     /\ step'.op = "onStorageMessage" =>
          LET msg == Head(storageInbox) IN
          /\ msg.storage => tabId' # None
          /\ IF msg.storage /\ msg.source # tabId'
             THEN storageApplied' = Append(storageApplied, msg.source)
             ELSE UNCHANGED <<storageApplied, refreshTimeouts, timers>>
          /\ \A k \in 1..Len(storageApplied') : storageApplied'[k] # tabId'
     /\ step'.op = "broadcastStorageSync" =>
          (tabId' # None /\ step'.m.source = tabId')]_vars

\* a message carrying this tab's id has been ignored after one of another tab was applied
C16_Witness ==
  /\ step.op = "onStorageMessage" /\ ~step.flag
  /\ step.m.storage /\ step.m.source = tabId
  /\ storageApplied # <<>>

\* C17: when a run of restoreSnapshot on a FileMap has finished, the runtime's
\* file system has a folder at the place of every folder of the map and a file
\* at the place of every file of the map, holding exactly the stored content,
\* written with no encoding when the file is binary and as utf8 otherwise.
C17_RestoreRoundTrip ==
  \A r \in 1..Len(restoreRuns) : restoreRuns[r].pc = "done" =>
    \A k \in 1..Len(restoreRuns[r].files) :
      LET e == restoreRuns[r].files[k]
          place == SubSeq(e.key, 2, Len(e.key))
      IN /\ e.value.type = "folder" =>
              /\ e.key = <<WorkDir>> \o place
              /\ [path |-> place, type |-> "folder"] \in runtimeFs
         /\ e.value.type = "file" =>
              /\ e.key = <<WorkDir>> \o place
              /\ [path |-> place, type |-> "file", data |-> e.value.content,
                  encoding |-> IF e.value.isBinary THEN None ELSE "utf8"] \in runtimeFs

\* a run on a map with a folder, a text file in it and a binary file has finished
C17_Witness ==
  \E r \in 1..Len(restoreRuns) :
    /\ restoreRuns[r].pc = "done"
    /\ \E k \in 1..Len(restoreRuns[r].files) : restoreRuns[r].files[k].value.type = "folder"
    /\ \E k \in 1..Len(restoreRuns[r].files) :
          /\ restoreRuns[r].files[k].value.type = "file"
          /\ restoreRuns[r].files[k].value.isBinary
    /\ \E e \in runtimeFs : e.type = "file" /\ e.encoding = None

\* the place of a message id in a transcript (0: not there) and the cutoff of a
\* load: the rewind target's place, the last message when no rewind is asked for
PositionOf(msgs, id) ==
  IF \E k \in 1..Len(msgs) : msgs[k].id = id
  THEN CHOOSE k \in 1..Len(msgs) : msgs[k].id = id /\ \A j \in 1..(k - 1) : msgs[j].id # id
  ELSE 0
Cutoff == IF Truthy(rewindTo) THEN PositionOf(storedMessages, rewindTo)
          ELSE Len(storedMessages)
Anchor == IF storedSnapshot = Undefined THEN 0
          ELSE PositionOf(storedMessages, storedSnapshot.chatIndex)
FilesOf(entries) == SelectSeq(entries, LAMBDA e : e.value.type = "file")

\* C18: a finished load whose snapshot anchor is in the transcript strictly
\* before the cutoff message has as initial messages a hidden user restore
\* message, an assistant message with the anchor's id and one file action per
\* snapshotted file, and then the real messages after the anchor up to and
\* including the cutoff.
C18_RestoreMessages ==
  (loadPc = "ready" /\ Anchor > 0 /\ Anchor < Cutoff) =>
     /\ Len(initialMessages) = 2 + (Cutoff - Anchor)
     /\ initialMessages[1].role = "user"
     /\ \E k \in 1..Len(initialMessages[1].annotations) :
           initialMessages[1].annotations[k] = "hidden"
     /\ initialMessages[2].role = "assistant"
     /\ initialMessages[2].id = storedMessages[Anchor].id
     /\ LET acts == initialMessages[2].content.actions
            fls == FilesOf(storedSnapshot.files)
        IN /\ Len(acts) = Len(fls)
           /\ \A k \in 1..Len(fls) :
                 acts[k].filePath = fls[k].key /\ acts[k].content = fls[k].value.content
     /\ SubSeq(initialMessages, 3, Len(initialMessages))
          = SubSeq(storedMessages, Anchor + 1, Cutoff)

\* every folder and file of a FileMap is in the runtime's file system
InRuntime(entries) ==
  \A k \in 1..Len(entries) :
    LET place == RelPath(entries[k].key, <<WorkDir>>) IN
    /\ entries[k].value.type = "folder" => [path |-> place, type |-> "folder"] \in runtimeFs
    /\ entries[k].value.type = "file" =>
          \E e \in runtimeFs : /\ e.path = place /\ e.type = "file"
                               /\ e.data = entries[k].value.content

\* C19: a load that has put the restore messages into the initial messages has
\* started a run of restoreSnapshot, and when that run has finished every
\* folder and file of the stored snapshot is in the runtime's file system.
C19_LoadRestores ==
  /\ (loadPc = "ready" /\ initialMessages # <<>> /\ initialMessages[1].id = GeneratedId)
        => \E r \in 1..Len(restoreRuns) : restoreRuns[r].by = "load"
  /\ \A r \in 1..Len(restoreRuns) :
        (restoreRuns[r].by = "load" /\ restoreRuns[r].pc = "done")
           => InRuntime(storedSnapshot.files)

\* C20: when no snapshot is stored, or the stored snapshot's chatIndex is the id
\* of no message of the transcript, the load archives nothing, never waits for
\* a restore, starts no restoreSnapshot run, and its initial messages are
\* messages of the transcript only: all of it when no rewind is asked for, its
\* part up to and including the rewind target otherwise.
C20_UnusableSnapshot ==
  Anchor = 0 =>
     /\ loadPc \in {"idle", "ready"}
     /\ restoreRuns = <<>>
     /\ archivedMessages = <<>>
     /\ loadPc = "ready" =>
          /\ \A k \in 1..Len(initialMessages) :
                \E j \in 1..Len(storedMessages) : initialMessages[k] = storedMessages[j]
          /\ ~Truthy(rewindTo) => initialMessages = storedMessages
          /\ (Truthy(rewindTo) /\ Cutoff > 0) => initialMessages = SubSeq(storedMessages, 1, Cutoff)

\* a chat whose stored snapshot has files but names no message of the
\* transcript has been loaded with a rewind target
C20_Witness ==
  /\ loadPc = "ready" /\ step.op = "load"
  /\ storedSnapshot # Undefined /\ storedSnapshot.files # <<>>
  /\ Anchor = 0 /\ Cutoff = 2
  /\ Len(initialMessages) = 2

\* C21: a push makes at most 3 attempts; after a failed attempt n it retries,
\* after a wait of n x 2000 ms, exactly when n < 3 and (n = 1 or the visibility
\* was just changed), and otherwise fails having made n attempts; an attempt
\* that succeeds returns the repository url without a further attempt.
C21_PushRetries ==
  [][/\ push'.pc # "idle" => push'.attempt <= 3
     /\ step'.op = "attemptSettles" =>
          LET n == push.attempt IN
          /\ n \in 1..3
          /\ push'.attempt = n
          /\ IF step'.flag
             THEN push'.pc = "fulfilled" /\ push'.result = RepoUrl
             ELSE IF n < 3 /\ (n = 1 \/ push.visibilityJustChanged)
             THEN /\ push'.pc = "backoff"
                  /\ push'.delays = Append(push.delays, n * 2000)
             ELSE push'.pc = "rejected" /\ push'.result = None
     /\ (step'.op = "pushWakes" /\ push.pc = "backoff") =>
          /\ push'.pc = "attempt"
          /\ push'.attempt = push.attempt + 1]_vars

\* with no visibility change, the first attempt failed and the second returned
\* the repository url: two attempts, one wait of 2000 ms
C21_Witness ==
  /\ push.pc = "fulfilled" /\ push.result = RepoUrl
  /\ push.attempt = 2
  /\ ~push.visibilityJustChanged
  /\ push.delays = <<2000>>

\* a value that is undefined or the empty string
Absent(x) == x = None \/ x = ""

\* C22: a push for which neither the arguments nor the cookies give a token, or
\* give an owner, is rejected with an error at the call, and no call to the
\* remote repository API has been made.
C22_NoCredentials ==
  (/\ push.pc # "idle"
   /\ \/ Absent(push.given.ghToken) /\ Absent(push.given.cookieToken)
      \/ Absent(push.given.githubUsername) /\ Absent(push.given.cookieOwner))
    => (push.pc = "rejected" /\ push.error # None /\ push.remoteCalls = 0)

\* a push called with an owner but an empty token and no token cookie has been rejected
C22_Witness ==
  /\ step.op = "pushToGitHub" /\ step.flag
  /\ push.given.ghToken = "" /\ push.given.cookieToken = None
  /\ push.given.githubUsername # None
  /\ push.pc = "rejected" /\ push.remoteCalls = 0

\* C23: when the callback of an addAction or runAction starts and no artifact
\* is registered for its message id, the operation fails with 'Artifact not
\* found' and stays failed (nothing catches it); it registers no action with a
\* runner, starts no execution, no save and no wait for the runtime, and
\* changes neither documents nor File Table.
C23_ArtifactNotFound ==
  [][/\ step'.op \in {"_addAction", "_runAction"} =>
          LET i == started'[Len(started')] IN
          ops[i].m \notin DOMAIN artifacts =>
             /\ ops'[i].pc = "failed"
             /\ UNCHANGED <<runner, runnerLog, pendingRuns, pendingSaves, wcWaiters,
                            files, documents, unsavedFiles, selectedFile>>
     /\ \A i \in 1..Len(ops) : ops[i].pc = "failed" => ops'[i].pc = "failed"]_vars

\* a runAction for a message without an artifact has failed
C23_Witness ==
  /\ step.op = "_runAction"
  /\ ops[1].kind = "run" /\ ops[1].pc = "failed"
  /\ ops[1].m \notin DOMAIN artifacts
  /\ runner[ops[1].m].actions = {}

\* C24: updateArtifact for a message id without an artifact changes nothing;
\* for a registered artifact it sets exactly the keys its partial state
\* carries (title, closed) and leaves the artifact's id, type and runner, the
\* other artifacts and artifactIdList as they were.
C24_UpdateArtifact ==
  [][step'.op = "updateArtifact" =>
       LET m == step'.m
           state == step'.state
       IN /\ UNCHANGED <<artifactIdList, runnersMade, runner, runnerLog, ops>>
          /\ DOMAIN artifacts' = DOMAIN artifacts
          /\ \A x \in DOMAIN artifacts : x # m => artifacts'[x] = artifacts[x]
          /\ m \in DOMAIN artifacts =>
               /\ artifacts'[m].id = artifacts[m].id
               /\ artifacts'[m].type = artifacts[m].type
               /\ artifacts'[m].runner = artifacts[m].runner
               /\ artifacts'[m].title =
                     IF "title" \in state.has THEN state.title ELSE artifacts[m].title
               /\ artifacts'[m].closed =
                     IF "closed" \in state.has THEN state.closed ELSE artifacts[m].closed]_vars

\* an artifact closed by an earlier update has got a new title from an update
\* that carries only the title
C24_Witness ==
  /\ step.op = "updateArtifact" /\ step.flag
  /\ step.state.has = {"title"} /\ ~step.state.closed
  /\ artifacts[step.m].closed /\ artifacts[step.m].title = "t3"
  /\ \E x \in MessageIds : x \notin DOMAIN artifacts

\* C25: abortAllActions changes nothing: the artifact registry, the documents,
\* the unsaved set, the File Table and the execution queue with its queued and
\* in-flight operations are after the call what they were before it.
C25_AbortIsNoOp ==
  [][step'.op = "abortAllActions" => UNCHANGED <<wbVars, bootVars, extVars>>]_vars

\* abortAllActions was called while one queued operation was in flight and
\* another waited behind it
C25_Witness ==
  /\ step.op = "abortAllActions"
  /\ \E i, j \in QueueOps : ops[i].pc \in InFlight /\ ops[j].pc = "queued"

\* C26: createFile, createFolder, deleteFile and deleteFolder go through the
\* global execution chain: none of them runs against the File Table while a
\* queued action operation is in flight.
C26_MutationsSerialized ==
  \A k \in 1..Len(mutations) : mutations[k].pc = "pending" => ~ActionInFlight

\* C28: resetCurrentDocument with an active document whose file is in the File
\* Table leaves the document's value equal to the File Table content and its
\* path out of unsavedFiles; without an active document, or without a File
\* Table entry for it, it changes nothing.
C28_ResetCurrentDocument ==
  [][step'.op = "resetCurrentDocument" =>
       LET p == CurrentDocument IN
       IF p # None /\ files[p] # None
       THEN /\ documents'[p] = files[p]
            /\ p \notin unsavedFiles'
            /\ UNCHANGED <<files, selectedFile>>
            /\ \A q \in Paths \ {p} : documents'[q] = documents[q]
       ELSE UNCHANGED <<wbVars, bootVars, extVars>>]_vars

\* the active document has been reset to the content a createFile gave its file
C28_Witness ==
  /\ step.op = "resetCurrentDocument" /\ ~step.flag
  /\ CurrentDocument # None /\ documents[CurrentDocument] = files[CurrentDocument]
  /\ CurrentDocument \notin unsavedFiles
  /\ \E k \in 1..Len(mutations) :
        /\ mutations[k].kind = "createFile" /\ mutations[k].pc = "true"
        /\ mutations[k].path = CurrentDocument /\ mutations[k].content = files[CurrentDocument]

\* C27: when persisting the snapshot fails, takeSnapshot shows a notification
\* and re-throws: the promise its caller holds is rejected.
C27_FailureRethrown ==
  \A k \in 1..Len(takes) :
     takes[k].failed => takes[k].toast /\ takes[k].pc = "rejected"

\* C29: in every run of restoreSnapshot the folder creations precede the file
\* writes: a writeFile is issued only after the mkdir of every folder entry of
\* the snapshot has completed, and each call is issued after the one before it
\* has finished.
C29_FoldersFirst ==
  \A r \in 1..Len(restoreRuns) :
     LET run == restoreRuns[r]
         log == run.calls
         folders == {k \in 1..Len(run.files) : run.files[k].value.type = "folder"}
     IN /\ \A a, b \in 1..Len(log) :
              a < b /\ log[a].op = "writeFile" => log[b].op = "writeFile"
        /\ (\E a \in 1..Len(log) : log[a].op = "writeFile") =>
              \A d \in folders :
                 \E a \in 1..Len(log) : log[a] = [op |-> "mkdir", i |-> d, settled |-> TRUE]
        /\ \A a \in 1..Len(log) : a < Len(log) => log[a].settled
        /\ run.pc \in {"mkdir", "writeFile"} <=> (log # <<>> /\ ~log[Len(log)].settled)

\* a snapshot that lists a file before its folder has been restored: the
\* folder was made first and the file written after it
C29_Witness ==
  \E r \in 1..Len(restoreRuns) :
     LET run == restoreRuns[r] IN
     /\ run.pc = "done" /\ Len(run.files) = 2
     /\ run.files[1].value.type = "file" /\ run.files[2].value.type = "folder"
     /\ run.calls = << [op |-> "mkdir", i |-> 2, settled |-> TRUE],
                       [op |-> "writeFile", i |-> 1, settled |-> TRUE] >>

\* C30: a streaming run of a file action only updates the document (and the
\* selected file and view): it never hands the action to the runner, whose
\* execution writes the file, and never saves the document to the File Table.
C30_StreamingOnlyDocument ==
  \A i \in 1..Len(ops) :
     ops[i].streaming /\ ActionType(ops[i].a) = "file" =>
        /\ \A k \in 1..Len(pendingRuns) : pendingRuns[k] # i
        /\ \A k \in 1..Len(pendingSaves) : pendingSaves[k].op # i

\* C31: across any number of getWebContainer calls, boots and hot reloads the
\* preview-message listener is registered at most once, so one runtime error
\* of the workload sets the action alert once.
C31_ListenerOnce == listeners <= 1

\* C32: artifactIdList holds each registered message id exactly once, in the
\* order of first registration; its ids are the keys of the artifact registry,
\* and firstArtifact is the artifact of the earliest-registered message id.
C32_ArtifactIdList ==
  /\ \A m \in DOMAIN artifacts :
        Cardinality({k \in 1..Len(artifactIdList) : artifactIdList[k] = m}) = 1
  /\ {artifactIdList[k] : k \in 1..Len(artifactIdList)} = DOMAIN artifacts
  /\ \A j, k \in 1..Len(artifactIdList) :
        j < k => artifacts[artifactIdList[j]].runner < artifacts[artifactIdList[k]].runner
  /\ DOMAIN artifacts # {} =>
        /\ HasFirstArtifact
        /\ \A m \in DOMAIN artifacts :
              artifacts[artifactIdList[1]].runner <= artifacts[m].runner

\* C33: under any interleaving of port events, refresh timeouts and animation
\* frames the published preview list holds exactly the ports of the port map.
C33_ListMatchesMap ==
  {heap[previews[k]].port : k \in 1..Len(previews)} = {p \in Ports : availablePreviews[p] # 0}

\* a non-streaming run of a file action
FileRuns == {i \in 1..Len(ops) : /\ ops[i].kind = "run" /\ ~ops[i].streaming
                                 /\ ActionType(ops[i].a) = "file"}

\* C34 as stated: one non-streaming run of a file action calls the runner's
\* runAction for the action at most once, with or without a document for the
\* action's path.
C34_RunnerCalledOnce == \A i \in FileRuns : ops[i].runnerCalls <= 1

\* C34 as amended: one non-streaming run of a file action has the runner
\* execute the action at most once; it calls runAction at most twice, and the
\* second call finds the action executed and starts no execution.
C34_RunnerRunsOnce ==
  \A i \in FileRuns : ops[i].runnerRuns <= 1 /\ ops[i].runnerCalls <= 2

\* a run that found no document has finished: it called runAction twice and
\* the runner executed the action once
C34_Witness ==
  \E i \in FileRuns : ops[i].pc = "done" /\ ops[i].runnerCalls = 2 /\ ops[i].runnerRuns = 1

\* C35: webcontainerContext never has loaded and booting both true, booting is
\* true only while a boot is in flight, and the context of a settled boot tells
\* how it ended: loaded after a success, lastError after a failure.
C35_ContextConsistent ==
  /\ ~(webcontainerContext.loaded /\ webcontainerContext.booting)
  /\ webcontainerContext.booting =>
        \E k \in 1..Len(promises) : promises[k] \in {"created", "booting"}
  /\ step.op = "bootResolve" =>
        webcontainerContext.loaded /\ ~webcontainerContext.booting
  /\ step.op = "bootReject" =>
        /\ ~webcontainerContext.loaded /\ ~webcontainerContext.booting
        /\ webcontainerContext.lastError # None

\* C36: a finished load whose rewindTo names a message of the transcript ends
\* at that message wherever the snapshot anchor lies: the rewind target is the
\* last of the initial messages and no message after it is loaded or archived.
C36_RewindEndsAtTarget ==
  (loadPc = "ready" /\ Truthy(rewindTo) /\ Cutoff > 0) =>
     /\ initialMessages # <<>>
     /\ initialMessages[Len(initialMessages)] = storedMessages[Cutoff]
     /\ \A j \in (Cutoff + 1)..Len(storedMessages) :
           /\ \A k \in 1..Len(initialMessages) : initialMessages[k].id # storedMessages[j].id
           /\ \A k \in 1..Len(archivedMessages) : archivedMessages[k].id # storedMessages[j].id

\* C37: after a finished load without rewind of a chat that has messages, the
\* first storeMessageHistory call with the loaded messages unchanged reaches
\* setMessages and, when that write succeeds, the database holds the transcript
\* it held before: archived messages, then the retained real messages, no
\* restore message, none lost or duplicated.
C37_StorePersistsTranscript ==
  [][(/\ step'.op = "storeMessageHistory" /\ step'.unchanged
      /\ loadPc = "ready" /\ ~Truthy(rewindTo) /\ storedMessages # <<>>
      /\ takes = <<>> /\ step'.outcome # "rejected")
     => (step'.outcome = "stored" /\ storedMessages' = storedMessages)]_vars

\* what the settling of the k-th mutation, a delete, must leave behind
C38_Settled(k) ==
  LET mu == mutations[k]
      under == IF mu.kind = "deleteFile" THEN {mu.path}
               ELSE {p \in Paths : InFolder(p, mu.path)}
  IN IF mutations'[k].pc = "true"
     THEN /\ under \cap unsavedFiles' = {}
          /\ mu.isCurrent => (selectedFile' = None \/ files'[selectedFile'] # None)
     ELSE /\ unsavedFiles' = unsavedFiles
          /\ selectedFile' = selectedFile
          /\ mutations'[k].pc \in {"false", "rejected"}
          /\ step'.flag = FALSE
\* C38: when the FilesStore call of a deleteFile(p) or deleteFolder(f) returns
\* true, p (every path under f) is out of unsavedFiles and, if the current
\* document was p (under f) when the delete was called, the selection is a file
\* the File Table still holds or none; when the call returns false or throws,
\* unsavedFiles and the selection stay as they are and a throw rejects the call.
C38_DeleteCleansUp ==
  [][\A k \in 1..Len(mutations) :
        (/\ Len(mutations') = Len(mutations)
         /\ mutations[k].kind \in {"deleteFile", "deleteFolder"}
         /\ mutations[k].pc = "pending" /\ mutations'[k].pc # "pending")
        => C38_Settled(k)]_vars
\* a delete of the current document, which had unsaved changes when the delete
\* was called, has succeeded and the selection is another file of the File Table
C38_Witness ==
  /\ step.op = "mutationSettles" /\ step.flag
  /\ \E k \in 1..Len(mutations) :
        /\ mutations[k].kind = step.m /\ mutations[k].kind \in {"deleteFile", "deleteFolder"}
        /\ mutations[k].isCurrent /\ mutations[k].pc = "true"
  /\ selectedFile # None /\ files[selectedFile] # None

ValueKind(v) == IF v = None THEN "none" ELSE IF v = "" THEN "empty" ELSE "key"
\* two requests differ at most in the values of their keys
SameButKeys(r1, r2) ==
  /\ \A p \in Providers : ValueKind(r1.cookie[p]) = ValueKind(r2.cookie[p])
  /\ ValueKind(r1.contextEnv) = ValueKind(r2.contextEnv)
  /\ ValueKind(r1.processEnv) = ValueKind(r2.processEnv)
  /\ ValueKind(r1.managerEnv) = ValueKind(r2.managerEnv)
\* C40: every value of a response of the export-api-keys loader is the literal
\* 'set', and two requests that differ only in key values get identical
\* responses.
C40_ResponseHidesKeys ==
  /\ \A i \in 1..Len(served) :
        \A p \in DOMAIN served[i].response : served[i].response[p] = "set"
  /\ \A i, j \in 1..Len(served) :
        SameButKeys(served[i].request, served[j].request)
           => served[i].response = served[j].response
\* two requests with different keys for the same providers, one key from the
\* cookie and one from the environment, have been served
C40_Witness ==
  /\ Len(served) = 2
  /\ SameButKeys(served[1].request, served[2].request)
  /\ served[1].request.cookie["Ollama"] \notin {None, "", served[2].request.cookie["Ollama"]}
  /\ Falsy(served[1].request.cookie["OpenAI"])
  /\ served[1].request.contextEnv \notin {None, "", served[2].request.contextEnv}
  /\ DOMAIN served[1].response = {"OpenAI", "Ollama"}
====
